---------------------------- MODULE Spec2Model ----------------------------
(***************************************************************************)
(* HostCart: the game collection store (src/src/data/game_database.py)     *)
(* over the records of src/src/data/models.py, and the configuration       *)
(* manager (src/src/utils/config_manager.py).                              *)
(*                                                                         *)
(* Values.  Python None and SQL NULL are the empty tuple, a present value  *)
(* v is the one-element tuple <<v>>.  Text that the code inspects          *)
(* character by character (tag names, the elements of the JSON list        *)
(* columns, the JSON text itself) is a sequence of one-character strings;  *)
(* text that is only stored and compared is a TLA+ string.                 *)
(***************************************************************************)
EXTENDS Integers, Sequences, FiniteSets, TLC

VARIABLES
    rows,       \* the user_games table: a set of rows
    held,       \* the caller's in-memory UserGame: <<>> or <<record>>
    heldRow,    \* where held came from: "none" (constructed), "live" (read
                \* from a row), "deleted" (read from a row deleted since)
    op,         \* the last operation and its arguments
    ret,        \* what the last operation returned
    err,        \* the exception the last operation raised, NoErr for none
    connects,   \* number of connections the last operation opened
    environ,    \* os.environ: the IGDB_* variables, each <<>> (unset) or <<text>>
    file,       \* the configuration file CONFIG_FILE on disk
    _instance,  \* ConfigManager._instance: <<>> or <<the instance's identity>>
    _config,    \* ConfigManager._config: <<>> or <<snapshot>>
    kwargs,     \* the keyword arguments of the last update_config
    pc,         \* where each concurrent caller is in its store operation
    open,       \* the number of connections each caller has open
    call,       \* each caller's operation: its arguments and its outcome
    lock        \* the write transaction in progress: <<>> or <<its caller
                \* and the table it will commit>>

cfgVars == <<environ, file, _instance, _config, kwargs>>
dbVars == <<rows, held, heldRow, ret, connects>>
connVars == <<pc, open, call, lock>>
callerVars == <<held, heldRow, op, ret, err, connects>>
vars ==
    <<rows, held, heldRow, op, ret, err, connects, environ, file, _instance, _config, kwargs,
      pc, open, call, lock>>

(***************************************************************************)
(* Bounds of the model.                                                    *)
(***************************************************************************)
\* largest rowid the table hands out before add_user_game is disabled
MaxId == 2

None == <<>>
Some(v) == <<v>>
IsNone(x) == x = <<>>
Val(x) == x[1]

(***************************************************************************)
(* Characters.                                                             *)
(***************************************************************************)
\* characters outside ASCII, with the four hex digits json.dumps writes
NonAscii == {"é", "É"}
HexOf(c) == IF c = "é" THEN <<"0", "0", "e", "9">> ELSE <<"0", "0", "c", "9">>
FromHex(h) ==
    IF h = <<"0", "0", "e", "9">> THEN Some("é")
    ELSE IF h = <<"0", "0", "c", "9">> THEN Some("É")
    ELSE None

\* SQLite's LIKE folds the case of ASCII letters only
AsciiLower(c) ==
    CASE c = "A" -> "a" [] c = "B" -> "b" [] c = "C" -> "c" [] c = "D" -> "d"
      [] c = "E" -> "e" [] c = "F" -> "f" [] c = "G" -> "g" [] c = "H" -> "h"
      [] c = "I" -> "i" [] c = "J" -> "j" [] c = "K" -> "k" [] c = "L" -> "l"
      [] c = "M" -> "m" [] c = "N" -> "n" [] c = "O" -> "o" [] c = "P" -> "p"
      [] c = "Q" -> "q" [] c = "R" -> "r" [] c = "S" -> "s" [] c = "T" -> "t"
      [] c = "U" -> "u" [] c = "V" -> "v" [] c = "W" -> "w" [] c = "X" -> "x"
      [] c = "Y" -> "y" [] c = "Z" -> "z"
      [] OTHER -> c

\* str.lower() folds every cased character
PyLowerChar(c) == IF c = "É" THEN "é" ELSE AsciiLower(c)

RECURSIVE PyLower(_)
PyLower(s) == IF s = <<>> THEN <<>> ELSE <<PyLowerChar(Head(s))>> \o PyLower(Tail(s))

(***************************************************************************)
(* json.dumps of a list of strings (ensure_ascii, separators ", ").        *)
(***************************************************************************)
JsonEscapeChar(c) ==
    IF c = "\"" THEN <<"\\", "\"">>
    ELSE IF c = "\\" THEN <<"\\", "\\">>
    ELSE IF c \in NonAscii THEN <<"\\", "u">> \o HexOf(c)
    ELSE <<c>>

RECURSIVE JsonEscape(_)
JsonEscape(s) ==
    IF s = <<>> THEN <<>> ELSE JsonEscapeChar(Head(s)) \o JsonEscape(Tail(s))

JsonString(s) == <<"\"">> \o JsonEscape(s) \o <<"\"">>

RECURSIVE JsonItems(_)
JsonItems(l) ==
    IF l = <<>> THEN <<>>
    ELSE IF Len(l) = 1 THEN JsonString(l[1])
    ELSE JsonString(l[1]) \o <<",", " ">> \o JsonItems(Tail(l))

JsonDumps(l) == <<"[">> \o JsonItems(l) \o <<"]">>

(***************************************************************************)
(* json.loads, for the texts the store can hold: an array of strings.      *)
(* A result is [ok, val]; ok = FALSE is json.JSONDecodeError.              *)
(***************************************************************************)
Drop(s, n) == SubSeq(s, n + 1, Len(s))

RECURSIVE SkipWs(_)
SkipWs(s) == IF s # <<>> /\ Head(s) = " " THEN SkipWs(Tail(s)) ELSE s

\* the characters of a string body up to its closing quote:
\* [ok, val, rest] with rest the text after the closing quote
RECURSIVE JsonStringBody(_, _)
JsonStringBody(s, acc) ==
    IF s = <<>> THEN [ok |-> FALSE, val |-> <<>>, rest |-> <<>>]
    ELSE IF Head(s) = "\"" THEN [ok |-> TRUE, val |-> acc, rest |-> Tail(s)]
    ELSE IF Head(s) = "\\" THEN
        IF Len(s) < 2 THEN [ok |-> FALSE, val |-> <<>>, rest |-> <<>>]
        ELSE IF s[2] \in {"\"", "\\"} THEN JsonStringBody(Drop(s, 2), Append(acc, s[2]))
        ELSE IF s[2] = "u" /\ Len(s) >= 6 /\ ~IsNone(FromHex(SubSeq(s, 3, 6)))
            THEN JsonStringBody(Drop(s, 6), Append(acc, Val(FromHex(SubSeq(s, 3, 6)))))
        ELSE [ok |-> FALSE, val |-> <<>>, rest |-> <<>>]
    ELSE JsonStringBody(Tail(s), Append(acc, Head(s)))

\* the elements after the opening bracket; first: no element read yet
RECURSIVE JsonElements(_, _, _)
JsonElements(s0, acc, first) ==
    LET s == SkipWs(s0) IN
    IF s = <<>> THEN [ok |-> FALSE, val |-> <<>>]
    ELSE IF Head(s) = "]" /\ first THEN
        [ok |-> SkipWs(Tail(s)) = <<>>, val |-> acc]
    ELSE IF Head(s) = "\"" THEN
        LET b == JsonStringBody(Tail(s), <<>>)
            r == SkipWs(b.rest)
        IN  IF ~b.ok \/ r = <<>> THEN [ok |-> FALSE, val |-> <<>>]
            ELSE IF Head(r) = "," THEN JsonElements(Tail(r), Append(acc, b.val), FALSE)
            ELSE IF Head(r) = "]" THEN
                [ok |-> SkipWs(Tail(r)) = <<>>, val |-> Append(acc, b.val)]
            ELSE [ok |-> FALSE, val |-> <<>>]
    ELSE [ok |-> FALSE, val |-> <<>>]

JsonLoads(text) ==
    LET s == SkipWs(text) IN
    IF s = <<>> \/ Head(s) # "[" THEN [ok |-> FALSE, val |-> <<>>]
    ELSE JsonElements(Tail(s), <<>>, TRUE)

(***************************************************************************)
(* DatabaseManager's field conversions.                                    *)
(***************************************************************************)
\* _parse_json_field giving [] for text that does not decode
_parse_json_field_empty_on_error(value) ==
    IF IsNone(value) \/ Val(value) = <<>> THEN None
    ELSE LET r == JsonLoads(Val(value)) IN IF r.ok THEN Some(r.val) ELSE Some(<<>>)

\* _parse_json_field: NULL and "" are absent, so is text that does not decode
_parse_json_field(value) ==
    IF IsNone(value) \/ Val(value) = <<>> THEN None
    ELSE LET r == JsonLoads(Val(value)) IN IF r.ok THEN Some(r.val) ELSE None

\* _serialize_json_field with `if not value` read as `if value is None`
_serialize_json_field_dumping_empty(value) ==
    IF IsNone(value) THEN None ELSE Some(JsonDumps(Val(value)))

\* _serialize_json_field: None and the empty list both give NULL
_serialize_json_field(value) ==
    IF IsNone(value) \/ Val(value) = <<>> THEN None
    ELSE Some(JsonDumps(Val(value)))

(***************************************************************************)
(* Datetimes.  A datetime is [day, us, tz]: a wall-clock instant, its      *)
(* microseconds, and its UTC offset (None for a naive datetime).           *)
(* isoformat() writes the microseconds only when they are not zero and    *)
(* the offset only when there is one; fromisoformat() reads it back.       *)
(***************************************************************************)
isoformat(dt) ==
    <<dt.day>>
    \o (IF dt.us # 0 THEN <<".", dt.us>> ELSE <<>>)
    \o (IF IsNone(dt.tz) THEN <<>> ELSE <<"+", Val(dt.tz)>>)

fromisoformat(text) ==
    LET hasUs == Len(text) >= 3 /\ text[2] = "."
        rest == IF hasUs THEN Drop(text, 3) ELSE Drop(text, 1)
    IN  [day |-> text[1],
         us |-> IF hasUs THEN text[3] ELSE 0,
         tz |-> IF rest # <<>> /\ rest[1] = "+" THEN Some(rest[2]) ELSE None]

_datetime_to_str(value) == IF IsNone(value) THEN None ELSE Some(isoformat(Val(value)))

\* datetime.fromisoformat(x) if x else None
StrToDatetime(value) ==
    IF IsNone(value) \/ Val(value) = <<>> THEN None
    ELSE Some(fromisoformat(Val(value)))


(***************************************************************************)
(* SQLite's text operators.                                                *)
(***************************************************************************)
\* text LIKE pattern: % is any run of characters, _ any one character,
\* every other character matches itself up to ASCII case
RECURSIVE Like(_, _)
Like(pattern, text) ==
    IF pattern = <<>> THEN text = <<>>
    ELSE IF Head(pattern) = "%" THEN
        Like(Tail(pattern), text) \/ (text # <<>> /\ Like(pattern, Tail(text)))
    ELSE /\ text # <<>>
         /\ (Head(pattern) = "_" \/ AsciiLower(Head(pattern)) = AsciiLower(Head(text)))
         /\ Like(Tail(pattern), Tail(text))

\* the order of two isoformat texts under SQLite's binary collation: tokens
\* at odd places are numbers of fixed width, at even places "+" sorts
\* before ".", and a text sorts after each of its proper prefixes
RECURSIVE TextLess(_, _, _)
TextLess(a, b, pos) ==
    IF a = <<>> THEN b # <<>>
    ELSE IF b = <<>> THEN FALSE
    ELSE IF Head(a) = Head(b) THEN TextLess(Tail(a), Tail(b), pos + 1)
    ELSE IF pos % 2 = 1 THEN Head(a) < Head(b)
    ELSE Head(a) = "+"

(***************************************************************************)
(* models.py: GameStatus, Game, Tag, UserGame.                             *)
(***************************************************************************)
\* an exception: its class, its message, and the column a corruption error names
NoErr == [type |-> "", msg |-> "", column |-> ""]
Raise(t, m) == [type |-> t, msg |-> m, column |-> ""]
Ok(v) == [ok |-> TRUE, val |-> Some(v), err |-> NoErr]
Fail(t, m) == [ok |-> FALSE, val |-> None, err |-> Raise(t, m)]

\* the members of GameStatus and their values
GameStatusMembers ==
    {"NOT_PLAYED", "PLAYING", "COMPLETED", "ON_HOLD", "DROPPED", "BACKLOG"}

StatusValue(m) ==
    CASE m = "NOT_PLAYED" -> "not_played" [] m = "PLAYING" -> "playing"
      [] m = "COMPLETED" -> "completed" [] m = "ON_HOLD" -> "on_hold"
      [] m = "DROPPED" -> "dropped" [] m = "BACKLOG" -> "backlog"

\* GameStatus(value): the member with that value, ValueError if there is none
GameStatus(v) ==
    IF \E m \in GameStatusMembers : StatusValue(m) = v
    THEN Ok(CHOOSE m \in GameStatusMembers : StatusValue(m) = v)
    ELSE Fail("ValueError", "not a valid GameStatus")

\* Game.__init__
Game(a) ==
    IF a.id = "" THEN Fail("ValueError", "game_id must not empty.")
    ELSE IF a.name = "" THEN Fail("ValueError", "name must not empty.")
    ELSE Ok([game_id |-> a.id, name |-> a.name, summary |-> a.summary,
             release_date |-> a.release_date, genres |-> a.genres,
             platforms |-> a.platforms, cover_url |-> a.cover_url,
             screenshots |-> a.screenshots, developer |-> a.developer,
             publisher |-> a.publisher, rating |-> a.rating,
             metacritic_score |-> a.metacritic_score,
             created_at |-> a.created_at, updated_at |-> a.updated_at])

\* Tag.__init__
Tag(name, id) == [name |-> name, id |-> id]

\* UserGame.__init__ without its two checks
UserGameUnchecked(a, now) ==
    Ok([game |-> a.game, tags |-> a.tags, id |-> a.id, status |-> a.status,
        user_rating |-> a.user_rating, user_review |-> a.user_review,
        played_time |-> a.played_time,
        date_added |-> IF IsNone(a.date_added) THEN now ELSE Val(a.date_added),
        date_started |-> a.date_started, date_completed |-> a.date_completed,
        last_played |-> a.last_played, notes |-> a.notes])

\* UserGame.__init__; now is datetime.now()
UserGame(a, now) ==
    IF a.tags = <<>> THEN Fail("ValueError", "Tags must not empty.")
    ELSE IF a.played_time < 0 THEN Fail("ValueError", "played_time must larger than 0.")
    ELSE Ok([game |-> a.game, tags |-> a.tags, id |-> a.id, status |-> a.status,
             user_rating |-> a.user_rating, user_review |-> a.user_review,
             played_time |-> a.played_time,
             date_added |-> IF IsNone(a.date_added) THEN now ELSE Val(a.date_added),
             date_started |-> a.date_started, date_completed |-> a.date_completed,
             last_played |-> a.last_played, notes |-> a.notes])

\* UserGame.has_tag_by_name
has_tag_by_name(ug, tag_name) ==
    \E i \in 1..Len(ug.tags) : PyLower(ug.tags[i].name) = PyLower(tag_name)

\* add_tag without its test: the tag is appended always
add_tag_unchecked(ug, tag) == [ug |-> [ug EXCEPT !.tags = Append(@, tag)], ret |-> TRUE]

\* UserGame.add_tag: [ug, ret], the record afterwards and the value returned
add_tag(ug, tag) ==
    IF ~has_tag_by_name(ug, tag.name)
    THEN [ug |-> [ug EXCEPT !.tags = Append(@, tag)], ret |-> TRUE]
    ELSE [ug |-> ug, ret |-> FALSE]

\* remove_tag_by_name popping the last tag of the list when a name matches
remove_last_tag(ug, tag_name) ==
    IF ~has_tag_by_name(ug, tag_name) THEN [ug |-> ug, ret |-> FALSE]
    ELSE [ug |-> [ug EXCEPT !.tags = SubSeq(@, 1, Len(@) - 1)], ret |-> TRUE]

\* UserGame.remove_tag_by_name: the first tag of that name, up to case, goes
remove_tag_by_name(ug, tag_name) ==
    LET hits == {i \in 1..Len(ug.tags) : PyLower(ug.tags[i].name) = PyLower(tag_name)} IN
    IF hits = {} THEN [ug |-> ug, ret |-> FALSE]
    ELSE LET i == CHOOSE k \in hits : \A j \in hits : k <= j IN
         [ug |-> [ug EXCEPT !.tags = SubSeq(@, 1, i - 1) \o SubSeq(@, i + 1, Len(@))],
          ret |-> TRUE]

\* the loop of UserGame.add_tags: [ug, ret], ret the count of added tags
RECURSIVE add_tags(_, _, _)
add_tags(ug, tags, added_count) ==
    IF tags = <<>> THEN [ug |-> ug, ret |-> added_count]
    ELSE add_tags(add_tag(ug, Head(tags)).ug, Tail(tags),
                  IF add_tag(ug, Head(tags)).ret THEN added_count + 1 ELSE added_count)

\* UserGame.remove_tag
remove_tag(ug, tag) == remove_tag_by_name(ug, tag.name)

\* UserGame.get_tag_names, [tag.name for tag in user_game.tags]
get_tag_names(ug) == [i \in 1..Len(ug.tags) |-> ug.tags[i].name]

\* UserGame.clear_tags
clear_tags(ug) == [ug EXCEPT !.tags = <<>>]

\* UserGame.update_playtime; now is datetime.now()
update_playtime(ug, additional_minutes, now) ==
    [ug EXCEPT !.played_time = @ + additional_minutes, !.last_played = Some(now)]

\* UserGame.mark_as_completed; now is datetime.now()
mark_as_completed(ug, now) ==
    [ug EXCEPT !.status = "COMPLETED", !.date_completed = Some(now)]

\* a method of UserGame that wrote the record through to its row
InMemoryWriteThrough(table, ug) ==
    IF IsNone(ug.id) \/ ug.tags = <<>> THEN table
    ELSE {IF r.id = Val(ug.id) THEN [r EXCEPT !.v.played_time = Some(ug.played_time),
                                              !.v.status = Some(StatusValue(ug.status))]
          ELSE r : r \in table}

\* the table after a method of UserGame or an assignment to its fields: the
\* record holds no connection and no method of it reaches the store
InMemory(table, ug) == table

(***************************************************************************)
(* The user_games table.  A row is [id, v]: the rowid and the record of    *)
(* the other 24 columns, each None (NULL) or a present value.              *)
(***************************************************************************)
\* the columns declared NOT NULL
NotNullColumns == {"game_id", "name", "status", "tags", "played_time", "date_added"}

NullIn(v) ==
    \/ IsNone(v.game_id) \/ IsNone(v.name) \/ IsNone(v.status)
    \/ IsNone(v.tags) \/ IsNone(v.played_time) \/ IsNone(v.date_added)

Ids(table) == {r.id : r \in table}

\* id INTEGER PRIMARY KEY, no AUTOINCREMENT: one more than the largest rowid
\* in the table now, so the rowid of a deleted last row is handed out again
NextRowid(table) ==
    IF table = {} THEN 1 ELSE (CHOOSE i \in Ids(table) : \A j \in Ids(table) : j <= i) + 1

\* UNIQUE(game_id) as the INSERT sees it
InsertConflictNever(table, v) == FALSE

InsertConflict(table, v) == \E r \in table : r.v.game_id = v.game_id

\* UNIQUE(game_id) as the UPDATE of row id sees it
UpdateConflictNever(table, id, v) == FALSE

UpdateConflict(table, id, v) ==
    \E r \in table : r.id # id /\ r.v.game_id = v.game_id

\* INSERT OR REPLACE: the row holding the game_id gives way to the new one
SqlInsertOrReplace(table, v) ==
    IF NullIn(v) THEN
        [table |-> table, lastrowid |-> None,
         err |-> Raise("IntegrityError", "NOT NULL constraint failed")]
    ELSE LET kept == {r \in table : r.v.game_id # v.game_id}
             id == NextRowid(kept)
         IN  [table |-> kept \cup {[id |-> id, v |-> v]}, lastrowid |-> Some(id),
              err |-> NoErr]

\* INSERT INTO user_games (...) VALUES (...): [table, err, lastrowid]
SqlInsert(table, v) ==
    IF NullIn(v) THEN
        [table |-> table, lastrowid |-> None,
         err |-> Raise("IntegrityError", "NOT NULL constraint failed")]
    ELSE IF InsertConflict(table, v) THEN
        [table |-> table, lastrowid |-> None,
         err |-> Raise("IntegrityError", "UNIQUE constraint failed: user_games.game_id")]
    ELSE LET id == NextRowid(table) IN
        [table |-> table \cup {[id |-> id, v |-> v]}, lastrowid |-> Some(id), err |-> NoErr]

\* UPDATE user_games SET ... WHERE id = ?: [table, err, rowcount];
\* id = NULL is true of no row
SqlUpdate(table, id, v) ==
    LET hit == IF IsNone(id) THEN {} ELSE {r \in table : r.id = Val(id)} IN
    IF hit = {} THEN [table |-> table, rowcount |-> 0, err |-> NoErr]
    ELSE IF NullIn(v) THEN
        [table |-> table, rowcount |-> 0,
         err |-> Raise("IntegrityError", "NOT NULL constraint failed")]
    ELSE IF UpdateConflict(table, Val(id), v) THEN
        [table |-> table, rowcount |-> 0,
         err |-> Raise("IntegrityError", "UNIQUE constraint failed: user_games.game_id")]
    ELSE [table |-> (table \ hit) \cup {[id |-> Val(id), v |-> v]},
          rowcount |-> Cardinality(hit), err |-> NoErr]

\* DELETE FROM user_games WHERE id = ?
SqlDeleteById(table, id) ==
    LET hit == {r \in table : r.id = id} IN
    [table |-> table \ hit, rowcount |-> Cardinality(hit)]

\* DELETE FROM user_games, the WHERE clause lost
SqlDeleteEveryRow(table, game_id) ==
    [table |-> {}, rowcount |-> Cardinality(table)]

\* DELETE FROM user_games WHERE game_id = ?
SqlDeleteByGameId(table, game_id) ==
    LET hit == {r \in table : r.v.game_id = Some(game_id)} IN
    [table |-> table \ hit, rowcount |-> Cardinality(hit)]

\* the parameters with genres and platforms bound in each other's place
RowValuesMisbound(ug) ==
    [game_id |-> Some(ug.game.game_id),
     name |-> Some(ug.game.name),
     summary |-> ug.game.summary,
     release_date |-> _datetime_to_str(ug.game.release_date),
     genres |-> _serialize_json_field(ug.game.platforms),
     platforms |-> _serialize_json_field(ug.game.genres),
     cover_url |-> ug.game.cover_url,
     screenshots |-> _serialize_json_field(ug.game.screenshots),
     developer |-> ug.game.developer,
     publisher |-> ug.game.publisher,
     rating |-> ug.game.rating,
     metacritic_score |-> ug.game.metacritic_score,
     created_at |-> _datetime_to_str(ug.game.created_at),
     updated_at |-> _datetime_to_str(ug.game.updated_at),
     status |-> Some(StatusValue(ug.status)),
     tags |-> _serialize_json_field(Some(get_tag_names(ug))),
     user_rating |-> ug.user_rating,
     user_review |-> ug.user_review,
     played_time |-> Some(ug.played_time),
     date_added |-> _datetime_to_str(Some(ug.date_added)),
     date_started |-> _datetime_to_str(ug.date_started),
     date_completed |-> _datetime_to_str(ug.date_completed),
     last_played |-> _datetime_to_str(ug.last_played),
     notes |-> ug.notes]

\* the parameters add_user_game and update_user_game bind to their statement
RowValues(ug) ==
    [game_id |-> Some(ug.game.game_id),
     name |-> Some(ug.game.name),
     summary |-> ug.game.summary,
     release_date |-> _datetime_to_str(ug.game.release_date),
     genres |-> _serialize_json_field(ug.game.genres),
     platforms |-> _serialize_json_field(ug.game.platforms),
     cover_url |-> ug.game.cover_url,
     screenshots |-> _serialize_json_field(ug.game.screenshots),
     developer |-> ug.game.developer,
     publisher |-> ug.game.publisher,
     rating |-> ug.game.rating,
     metacritic_score |-> ug.game.metacritic_score,
     created_at |-> _datetime_to_str(ug.game.created_at),
     updated_at |-> _datetime_to_str(ug.game.updated_at),
     status |-> Some(StatusValue(ug.status)),
     tags |-> _serialize_json_field(Some(get_tag_names(ug))),
     user_rating |-> ug.user_rating,
     user_review |-> ug.user_review,
     played_time |-> Some(ug.played_time),
     date_added |-> _datetime_to_str(Some(ug.date_added)),
     date_started |-> _datetime_to_str(ug.date_started),
     date_completed |-> _datetime_to_str(ug.date_completed),
     last_played |-> _datetime_to_str(ug.last_played),
     notes |-> ug.notes]

\* the corruption error without the column's name
CorruptedUnnamed(column) ==
    [ok |-> FALSE, val |-> None,
     err |-> [type |-> "ValueError", column |-> "",
              msg |-> "cannot be NULL in database, database is corrupted."]]

\* ValueError("<column> cannot be NULL in database, database is corrupted.")
Corrupted(column) ==
    [ok |-> FALSE, val |-> None,
     err |-> [type |-> "ValueError", column |-> column,
              msg |-> "cannot be NULL in database, database is corrupted."]]

\* GameCollectionManager._row_to_user_game
_row_to_user_game(row) ==
    LET v == row.v IN
    IF IsNone(v.game_id) THEN Corrupted("game_id")
    ELSE IF IsNone(v.name) THEN Corrupted("name")
    ELSE
    LET game == Game([id |-> Val(v.game_id), name |-> Val(v.name),
                      summary |-> v.summary,
                      release_date |-> StrToDatetime(v.release_date),
                      genres |-> _parse_json_field(v.genres),
                      platforms |-> _parse_json_field(v.platforms),
                      cover_url |-> v.cover_url,
                      screenshots |-> _parse_json_field(v.screenshots),
                      developer |-> v.developer, publisher |-> v.publisher,
                      rating |-> v.rating, metacritic_score |-> v.metacritic_score,
                      created_at |-> StrToDatetime(v.created_at),
                      updated_at |-> StrToDatetime(v.updated_at)])
        tag_names == _parse_json_field(v.tags)
    IN
    IF ~game.ok THEN game
    ELSE IF IsNone(tag_names) \/ Val(tag_names) = <<>> THEN
        [ok |-> FALSE, val |-> None,
         err |-> [type |-> "ValueError", column |-> "tags",
                  msg |-> "Tags cannot be NULL or empty in database, database is corrupted."]]
    ELSE IF IsNone(v.date_added) THEN Corrupted("date_added")
    ELSE IF IsNone(v.status) THEN Corrupted("status")
    ELSE IF IsNone(v.played_time) THEN Corrupted("played_time")
    ELSE
    LET status == GameStatus(Val(v.status)) IN
    IF ~status.ok THEN status
    ELSE IF Val(v.date_added) = <<>> THEN Fail("ValueError", "Invalid isoformat string: ''")
    ELSE UserGame([id |-> Some(row.id), game |-> Val(game.val),
                   tags |-> [i \in 1..Len(Val(tag_names)) |-> Tag(Val(tag_names)[i], None)],
                   status |-> Val(status.val),
                   user_rating |-> v.user_rating, user_review |-> v.user_review,
                   played_time |-> Val(v.played_time),
                   date_added |-> Some(fromisoformat(Val(v.date_added))),
                   date_started |-> StrToDatetime(v.date_started),
                   date_completed |-> StrToDatetime(v.date_completed),
                   last_played |-> StrToDatetime(v.last_played),
                   notes |-> v.notes],
                  fromisoformat(Val(v.date_added)))

(***************************************************************************)
(* GameCollectionManager.  Each operation is a function of the table and   *)
(* its arguments to [table, ret, err, connects]: the table afterwards,     *)
(* the value returned, the exception raised, and the number of             *)
(* connections opened (each is closed again by get_connection's finally).  *)
(***************************************************************************)
RetNone == [kind |-> "none", b |-> FALSE, n |-> 0, games |-> <<>>]
RetBool(b) == [kind |-> "bool", b |-> b, n |-> 0, games |-> <<>>]
RetId(n) == [kind |-> "id", b |-> FALSE, n |-> n, games |-> <<>>]
RetGame(g) == [kind |-> "game", b |-> FALSE, n |-> 0, games |-> <<g>>]
RetGames(l) == [kind |-> "games", b |-> FALSE, n |-> 0, games |-> l]

Outcome(table, r, e, c) == [table |-> table, ret |-> r, err |-> e, connects |-> c]

\* add_user_game returning the record's own id when it has one
add_user_game_returning_record_id(table, user_game) ==
    LET ins == SqlInsert(table, RowValues(user_game)) IN
    IF ins.err # NoErr THEN Outcome(table, RetNone, ins.err, 1)
    ELSE IF ~IsNone(user_game.id) THEN Outcome(ins.table, RetId(Val(user_game.id)), NoErr, 1)
    ELSE Outcome(ins.table, RetId(Val(ins.lastrowid)), NoErr, 1)

add_user_game(table, user_game) ==
    LET ins == SqlInsert(table, RowValues(user_game)) IN
    IF ins.err # NoErr THEN Outcome(table, RetNone, ins.err, 1)
    ELSE IF IsNone(ins.lastrowid) THEN
        Outcome(ins.table, RetNone,
                Raise("RuntimeError", "Failed to insert game: no ID returned"), 1)
    ELSE Outcome(ins.table, RetId(Val(ins.lastrowid)), NoErr, 1)

get_user_game_by_game_id(table, game_id) ==
    LET hit == {r \in table : r.v.game_id = Some(game_id)} IN
    IF hit = {} THEN Outcome(table, RetNone, NoErr, 1)
    ELSE LET c == _row_to_user_game(CHOOSE r \in hit : TRUE) IN
         IF c.ok THEN Outcome(table, RetGame(Val(c.val)), NoErr, 1)
         ELSE Outcome(table, RetNone, c.err, 1)

\* update_user_game without its first two lines
update_user_game_unguarded(table, user_game) ==
    LET upd == SqlUpdate(table, user_game.id, RowValues(user_game)) IN
    IF upd.err # NoErr THEN Outcome(table, RetNone, upd.err, 1)
    ELSE Outcome(upd.table, RetBool(upd.rowcount > 0), NoErr, 1)

update_user_game(table, user_game) ==
    IF IsNone(user_game.id) THEN Outcome(table, RetBool(FALSE), NoErr, 0)
    ELSE LET upd == SqlUpdate(table, user_game.id, RowValues(user_game)) IN
         IF upd.err # NoErr THEN Outcome(table, RetNone, upd.err, 1)
         ELSE Outcome(upd.table, RetBool(upd.rowcount > 0), NoErr, 1)

\* delete_user_game returning rowcount >= 0
delete_user_game_rowcount_any(table, id) ==
    LET del == SqlDeleteById(table, id) IN
    Outcome(del.table, RetBool(del.rowcount >= 0), NoErr, 1)

delete_user_game(table, id) ==
    LET del == SqlDeleteById(table, id) IN
    Outcome(del.table, RetBool(del.rowcount > 0), NoErr, 1)

delete_user_game_by_game_id(table, game_id) ==
    LET del == SqlDeleteByGameId(table, game_id) IN
    Outcome(del.table, RetBool(del.rowcount > 0), NoErr, 1)

\* the sequences SELECT ... ORDER BY date_added DESC may fetch from a set of
\* rows: each row once, no row before one whose date_added text is greater
Fetches(hit) ==
    {f \in [1..Cardinality(hit) -> hit] :
        /\ \A i, j \in DOMAIN f : i # j => f[i] # f[j]
        /\ \A i, j \in DOMAIN f :
            i < j => ~TextLess(Val(f[i].v.date_added), Val(f[j].v.date_added), 1)}

\* WHERE tags LIKE '%"<tag_name>"%'
TagPattern(tag_name) == <<"%", "\"">> \o tag_name \o <<"\"", "%">>

LikeTag(table, tag_name) ==
    {r \in table : ~IsNone(r.v.tags) /\ Like(TagPattern(tag_name), Val(r.v.tags))}

\* the loop of get_user_games_by_tag over the fetched rows
RECURSIVE ExactTagMatches(_, _, _)
ExactTagMatches(fetched, tag_name, user_games) ==
    IF fetched = <<>> THEN Ok(user_games)
    ELSE LET c == _row_to_user_game(Head(fetched)) IN
         IF ~c.ok THEN c
         ELSE ExactTagMatches(Tail(fetched), tag_name,
                IF has_tag_by_name(Val(c.val), tag_name)
                THEN Append(user_games, Val(c.val)) ELSE user_games)

\* the loop without its test: every fetched row is returned
RECURSIVE AllFetched(_, _, _)
AllFetched(fetched, tag_name, user_games) ==
    IF fetched = <<>> THEN Ok(user_games)
    ELSE LET c == _row_to_user_game(Head(fetched)) IN
         IF ~c.ok THEN c
         ELSE AllFetched(Tail(fetched), tag_name, Append(user_games, Val(c.val)))

TagFilterKeepingAll(fetched, tag_name) == AllFetched(fetched, tag_name, <<>>)

TagFilter(fetched, tag_name) == ExactTagMatches(fetched, tag_name, <<>>)

\* return user_games, unless a row conversion raised
Listed(table, m) ==
    IF m.ok THEN Outcome(table, RetGames(Val(m.val)), NoErr, 1)
    ELSE Outcome(table, RetNone, m.err, 1)

\* fetched: the rows the SELECT returned, in the order it returned them
get_user_games_by_tag(table, tag_name, fetched) ==
    Listed(table, TagFilter(fetched, tag_name))

\* [self._row_to_user_game(row) for row in rows]
RECURSIVE RowsToUserGames(_, _)
RECURSIVE Collected(_, _, _)
\* c: the conversion of the first fetched row
Collected(c, fetched, user_games) ==
    IF ~c.ok THEN c
    ELSE RowsToUserGames(Tail(fetched), Append(user_games, Val(c.val)))

RowsToUserGames(fetched, user_games) ==
    IF fetched = <<>> THEN Ok(user_games)
    ELSE Collected(_row_to_user_game(Head(fetched)), fetched, user_games)

\* fetched: the rows SELECT * ... ORDER BY date_added DESC returned
load_all_user_games(table, fetched) == Listed(table, RowsToUserGames(fetched, <<>>))

\* the SELECT without its WHERE clause
StatusRowsAny(table, status) == table

\* WHERE status = ?, bound to status.value
StatusRows(table, status) == {r \in table : r.v.status = Some(StatusValue(status))}

\* fetched: the rows of that status, in the order the SELECT returned them
get_user_games_by_status(table, status, fetched) ==
    Listed(table, RowsToUserGames(fetched, <<>>))

(***************************************************************************)
(* The values callers pass in.                                             *)
(***************************************************************************)
Favorite == <<"F", "a", "v", "o", "r", "i", "t", "e">>
Wishlist == <<"W", "i", "s", "h", "l", "i", "s", "t">>
Fav == <<"F", "a", "v">>
RPG == <<"R", "P", "G">>
PC == <<"P", "C">>
Shot == <<"a", ".", "j", "p", "g">>

Jan5 == [day |-> 5, us |-> 0, tz |-> None]
Jan6 == [day |-> 6, us |-> 500, tz |-> None]
Jan6Utc2 == [day |-> 6, us |-> 0, tz |-> Some(2)]

\* what datetime.now() may return
Clock == {[day |-> 7, us |-> 250, tz |-> None]}

\* the optional fields of a record: all absent (conftest's minimal_game),
\* all present (conftest's sample_user_game), and present but empty
MinimalFields ==
    [summary |-> None, release_date |-> None, genres |-> None, platforms |-> None,
     cover_url |-> None, screenshots |-> None, developer |-> None, publisher |-> None,
     rating |-> None, metacritic_score |-> None, created_at |-> None,
     updated_at |-> None, status |-> "NOT_PLAYED", user_rating |-> None,
     user_review |-> None, date_started |-> None, date_completed |-> None,
     last_played |-> None, notes |-> None]

SampleFields ==
    [summary |-> Some("A test game for unit testing"), release_date |-> Some(Jan5),
     genres |-> Some(<<RPG, Fav>>), platforms |-> Some(<<PC>>),
     cover_url |-> Some("https://example.com/cover.jpg"),
     screenshots |-> Some(<<Shot>>), developer |-> Some("Test Developer"),
     publisher |-> Some("Test Publisher"), rating |-> Some(8),
     metacritic_score |-> Some(85), created_at |-> Some(Jan6),
     updated_at |-> Some(Jan6Utc2), status |-> "PLAYING", user_rating |-> Some(9),
     user_review |-> Some("Great game!"), date_started |-> Some(Jan6),
     date_completed |-> None, last_played |-> Some(Jan6Utc2),
     notes |-> Some("Need to finish the main quest")]

EmptyFields ==
    [summary |-> Some(""), release_date |-> Some(Jan6), genres |-> Some(<<>>),
     platforms |-> Some(<<>>), cover_url |-> Some(""), screenshots |-> Some(<<>>),
     developer |-> Some(""), publisher |-> None, rating |-> Some(0),
     metacritic_score |-> Some(0), created_at |-> None, updated_at |-> None,
     status |-> "COMPLETED", user_rating |-> Some(0), user_review |-> Some(""),
     date_started |-> None, date_completed |-> Some(Jan6Utc2), last_played |-> None,
     notes |-> Some("")]

\* the arguments of Game(...) and UserGame(...) from a choice of the fields
GameArgs(a) ==
    [id |-> a.game_id, name |-> a.name, summary |-> a.f.summary,
     release_date |-> a.f.release_date, genres |-> a.f.genres,
     platforms |-> a.f.platforms, cover_url |-> a.f.cover_url,
     screenshots |-> a.f.screenshots, developer |-> a.f.developer,
     publisher |-> a.f.publisher, rating |-> a.f.rating,
     metacritic_score |-> a.f.metacritic_score, created_at |-> a.f.created_at,
     updated_at |-> a.f.updated_at]

UserGameArgs(a, game) ==
    [game |-> game, tags |-> a.tags, id |-> a.id, status |-> a.f.status,
     user_rating |-> a.f.user_rating, user_review |-> a.f.user_review,
     played_time |-> a.played_time, date_added |-> a.date_added,
     date_started |-> a.f.date_started, date_completed |-> a.f.date_completed,
     last_played |-> a.f.last_played, notes |-> a.f.notes]

\* UserGame(game=Game(...), ...) as a caller writes it
NewUserGame(a, now) ==
    LET game == Game(GameArgs(a)) IN
    IF ~game.ok THEN game ELSE UserGame(UserGameArgs(a, Val(game.val)), now)

GameIds == {"g1", "g2"}

SampleTags == <<Tag(Favorite, None), Tag(Wishlist, Some(2))>>

Choice(game_id, name, id, tags, played_time, date_added, f) ==
    [game_id |-> game_id, name |-> name, id |-> id, tags |-> tags,
     played_time |-> played_time, date_added |-> date_added, f |-> f]

\* records of every shape, under both game ids, with no id, the id of the
\* first row and the id of a later row; a record that leaves date_added to
\* the clock; and the four records validation rejects
CrudChoices ==
    {Choice("g1", "Test", None, SampleTags, 120, Some(Jan5), f) :
        f \in {MinimalFields, SampleFields, EmptyFields}}
    \cup {Choice("g1", "Test", Some(1), SampleTags, 120, Some(Jan5), f) :
        f \in {SampleFields, EmptyFields}}
    \cup {Choice("g1", "Test", Some(2), SampleTags, 120, Some(Jan5), MinimalFields),
          Choice("g2", "Test", Some(1), SampleTags, 120, Some(Jan5), MinimalFields),
          Choice("g2", "Test", None, <<Tag(Favorite, None)>>, 0, None, MinimalFields),
          Choice("", "Test", None, SampleTags, 120, Some(Jan5), MinimalFields),
          Choice("g1", "", None, SampleTags, 120, Some(Jan5), MinimalFields),
          Choice("g1", "Test", None, <<>>, 120, Some(Jan5), MinimalFields),
          Choice("g1", "Test", None, SampleTags, -1, Some(Jan5), MinimalFields)}

\* a record built in the call that adds it: conftest's minimal_user_game
FreshRecord ==
    Val(NewUserGame(Choice("g2", "Minimal Game", None, <<Tag(Fav, None)>>, 0,
                           Some(Jan6), MinimalFields), Jan6).val)

\* the tag names and tag lists of the tag queries: names that differ in case
\* only, a name that is a prefix of another, and names json.dumps escapes
FavoriteLower == <<"f", "a", "v", "o", "r", "i", "t", "e">>
Accent == <<"é">>
AccentUpper == <<"É">>
Quoted == <<"a", "\"">>
Slash == <<"a", "\\">>

TagLists ==
    {<<Tag(Favorite, None)>>, <<Tag(FavoriteLower, None), Tag(Accent, None)>>,
     <<Tag(Wishlist, None), Tag(Quoted, None)>>, <<Tag(Slash, None)>>}

TagChoices ==
    {Choice(g, "Test", None, tags, 120, Some(Jan5), MinimalFields) :
        g \in GameIds, tags \in TagLists}

\* the names callers ask get_user_games_by_tag for: stored names, names in
\* another case, and names holding LIKE's wildcards
TagQueries ==
    {Fav, Favorite, FavoriteLower, Accent, AccentUpper, Quoted, Slash,
     <<"F", "a", "_">>, <<"%">>}

\* records for the listing operations: both game ids, three statuses, and
\* date_added naive, left to the clock, and with two different UTC offsets
Jan5Utc0 == [day |-> 5, us |-> 0, tz |-> Some(0)]

ListChoices ==
    {Choice(g, "Test", None, SampleTags, 120, Some(Jan5), SampleFields) : g \in GameIds}
    \cup {Choice(g, "Test", None, SampleTags, 120, Some(Jan6Utc2), MinimalFields) :
            g \in GameIds}
    \cup {Choice(g, "Test", None, SampleTags, 120, Some(Jan5Utc0), EmptyFields) :
            g \in GameIds}
    \cup {Choice(g, "Test", None, SampleTags, 120, None, MinimalFields) : g \in GameIds}

\* the statuses and tag names callers list by
StatusQueries == {"NOT_PLAYED", "PLAYING", "COMPLETED", "DROPPED"}
ListTagQueries == {Favorite, Fav}

\* rows as a damaged database file may hold them: the row of the sample
\* record or of the minimal record, each required column intact, NULL or
\* empty, the tags column also holding [] or text that is not JSON, the
\* status column also a text that is no status, and two optional list
\* columns intact, empty or not JSON
Truncated == <<"[", "\"", "R", "P">>
NotJson == <<"R", "P", "G">>

SampleRecord ==
    Val(NewUserGame(Choice("g1", "Test", None, SampleTags, 120, Some(Jan5),
                           SampleFields), Jan5).val)

FoundRows ==
    {[id |-> 1,
      v |-> [RowValues(b) EXCEPT !.game_id = g, !.name = n, !.tags = t,
                                 !.date_added = d, !.status = s, !.played_time = p,
                                 !.genres = ge, !.screenshots = sc]] :
        b \in {SampleRecord, FreshRecord},
        g \in {Some("g1"), None, Some("")},
        n \in {Some("Test"), None, Some("")},
        t \in {Some(JsonDumps(<<Favorite>>)), None, Some(<<>>), Some(<<"[", "]">>),
               Some(Truncated)},
        d \in {Some(isoformat(Jan5)), None, Some(<<>>)},
        s \in {Some("playing"), None, Some(""), Some("finished")},
        p \in {Some(0), None},
        ge \in {Some(JsonDumps(<<RPG>>)), Some(Truncated)},
        sc \in {None, Some(NotJson)}}

\* the tags callers add and the names they remove, and the notes they assign
NewTags == {Tag(Fav, None), Tag(FavoriteLower, None)}
RemovedTags == {FavoriteLower}
NewNotes == {None}

\* the tag methods: records with one tag, with two, and with two of one
\* name up to case; the tags and the lists of tags passed
TagNames(tags) == [i \in 1..Len(tags) |-> tags[i].name]

TagMethodChoices ==
    {Choice("g1", "Test", None, tags, 0, Some(Jan5), MinimalFields) :
        tags \in {<<Tag(Fav, None)>>, SampleTags,
                  <<Tag(Favorite, None), Tag(FavoriteLower, None)>>,
                  <<Tag(Favorite, None), Tag(Wishlist, None), Tag(FavoriteLower, None)>>}}

TagMethodTags == {Tag(n, None) : n \in {Favorite, FavoriteLower, Fav, Wishlist}}

TagMethodLists ==
    {<<>>, <<Tag(Wishlist, None)>>,
     <<Tag(FavoriteLower, None), Tag(Favorite, Some(2)), Tag(Fav, None)>>}

\* the amounts callers pass to update_playtime
PlaytimeSteps == {-180}
\* the played_time range the model follows
MaxPlayed == 180

(***************************************************************************)
(* Concurrent callers.  Each runs one store operation at a time through    *)
(* get_connection: connect, the two PRAGMAs, the statement, the commit,    *)
(* the finally clause.  rows is the committed table, which is what a       *)
(* statement of another connection reads.                                  *)
(***************************************************************************)
Callers == {1, 2}

\* the connections a caller may have open at once in the model
MaxOpen == 2

\* a caller that has made no call yet; no caller is inside an operation
NoCall == [name |-> "none", game_id |-> "", user_game |-> None, fresh |-> FALSE,
           stage |-> "none", ret |-> RetNone, err |-> NoErr]

NoCalls ==
    /\ pc = [c \in Callers |-> "idle"]
    /\ open = [c \in Callers |-> 0]
    /\ call = [c \in Callers |-> NoCall]
    /\ lock = None

\* the records the callers add: two of one game_id, a record whose tags
\* were cleared, and a record whose played_time went below zero
ConcurrentRecords ==
    {Val(NewUserGame(Choice("g1", n, None, <<Tag(Fav, None)>>, 0, Some(Jan6),
                            MinimalFields), Jan6).val) : n \in {"Test", "Other"}}
    \cup {clear_tags(FreshRecord), update_playtime(FreshRecord, -60, Jan6)}

\* the game_id column the record's row will hold
GameIdOf(user_game) == Val(RowValues(user_game).game_id)

\* the calls: add_user_game(user_game) and get_user_game_by_game_id(game_id)
Calls ==
    {[NoCall EXCEPT !.name = "add", !.game_id = GameIdOf(ug), !.user_game = Some(ug)] :
        ug \in ConcurrentRecords}
    \cup {[NoCall EXCEPT !.name = "get", !.game_id = g] : g \in GameIds}

\* sqlite3.connect(...) of get_connection: the caller enters an operation
\* and has one more connection open
Connect(c) ==
    \E k \in Calls :
        /\ pc[c] = "idle"
        /\ open[c] < MaxOpen
        /\ open' = [open EXCEPT ![c] = @ + 1]
        /\ call' = [call EXCEPT ![c] =
                [k EXCEPT !.fresh = ~\E r \in rows : r.v.game_id = Some(k.game_id),
                          !.stage = "connect"]]
        /\ pc' = [pc EXCEPT ![c] = "connected"]
        /\ UNCHANGED <<rows, lock, callerVars, cfgVars>>

\* conn.execute("PRAGMA ..."), before the try of get_connection
Configure(c) ==
    /\ pc[c] = "connected"
    /\ pc' = [pc EXCEPT ![c] = "configured"]
    /\ call' = [call EXCEPT ![c].stage = "configured"]
    /\ UNCHANGED <<rows, open, lock, callerVars, cfgVars>>

\* a PRAGMA raises: the exception leaves get_connection before its try, so
\* its finally is not run
ConfigureFails(c) ==
    /\ pc[c] = "connected"
    /\ pc' = [pc EXCEPT ![c] = "idle"]
    /\ call' = [call EXCEPT ![c].err = Raise("OperationalError", "PRAGMA failed")]
    /\ UNCHANGED <<rows, open, lock, callerVars, cfgVars>>

\* cursor.execute(INSERT ...) of add_user_game: it waits while another
\* connection holds the write lock; a refused INSERT raises
ExecuteInsert(c) ==
    /\ pc[c] = "configured" /\ call[c].name = "add"
    /\ IsNone(lock)
    /\ LET ins == SqlInsert(rows, RowValues(Val(call[c].user_game))) IN
        IF ins.err # NoErr THEN
            /\ call' = [call EXCEPT ![c].err = ins.err, ![c].stage = "executed"]
            /\ pc' = [pc EXCEPT ![c] = "finally"]
            /\ lock' = lock
        ELSE
            /\ call' = [call EXCEPT ![c].stage = "executed"]
            /\ pc' = [pc EXCEPT ![c] = "inserted"]
            /\ lock' = Some([caller |-> c, table |-> ins.table, lastrowid |-> ins.lastrowid])
    /\ UNCHANGED <<rows, open, callerVars, cfgVars>>

\* the wait for the write lock ends at timeout=30.0
BusyTimeout(c) ==
    /\ pc[c] = "configured" /\ call[c].name = "add"
    /\ ~IsNone(lock)
    /\ call' = [call EXCEPT ![c].err = Raise("OperationalError", "database is locked"),
                            ![c].stage = "executed"]
    /\ pc' = [pc EXCEPT ![c] = "finally"]
    /\ UNCHANGED <<rows, open, lock, callerVars, cfgVars>>

\* conn.commit(), then return cursor.lastrowid
Commit(c) ==
    /\ pc[c] = "inserted"
    /\ Val(lock).caller = c
    /\ rows' = Val(lock).table
    /\ lock' = None
    /\ call' = [call EXCEPT ![c].ret = RetId(Val(Val(lock).lastrowid))]
    /\ pc' = [pc EXCEPT ![c] = "finally"]
    /\ UNCHANGED <<open, callerVars, cfgVars>>

\* get_user_game_by_game_id: the SELECT and the conversion of its row
ExecuteSelect(c) ==
    /\ pc[c] = "configured" /\ call[c].name = "get"
    /\ LET o == get_user_game_by_game_id(rows, call[c].game_id) IN
        call' = [call EXCEPT ![c].ret = o.ret, ![c].err = o.err, ![c].stage = "executed"]
    /\ pc' = [pc EXCEPT ![c] = "finally"]
    /\ UNCHANGED <<rows, open, lock, callerVars, cfgVars>>

\* finally: conn.close()
Close(c) ==
    /\ pc[c] = "finally"
    /\ open' = [open EXCEPT ![c] = @ - 1]
    /\ pc' = [pc EXCEPT ![c] = "idle"]
    /\ UNCHANGED <<rows, call, lock, callerVars, cfgVars>>

\* a connection no frame refers to any more is closed when the interpreter
\* frees it
Finalize(c) ==
    /\ pc[c] = "idle"
    /\ open[c] > 0
    /\ open' = [open EXCEPT ![c] = @ - 1]
    /\ UNCHANGED <<rows, call, pc, lock, callerVars, cfgVars>>

(***************************************************************************)
(* config_manager.py.  A Python value of the configuration is PyStr(s) or  *)
(* PyInt(n), a JSON value of the file JString(s) or JNumber(n); a dict and *)
(* a JSON object are functions of their keys.  The file is [state, doc]:   *)
(* missing, not JSON ("invalid"), or a JSON object of JSON objects.        *)
(***************************************************************************)
HOST == "0.0.0.0"
PORT == 8000
DATABASE_FILE == "../../database/data.db"

PyStr(s) == [t |-> "str", s |-> s, n |-> 0]
PyInt(n) == [t |-> "int", s |-> "", n |-> n]
JString(s) == [j |-> "string", s |-> s, n |-> 0]
JNumber(n) == [j |-> "number", s |-> "", n |-> n]

EmptyDict == <<>>

\* json.dump writing every value as a string
JsonDumpValueAsText(v) == JString(v.s)

\* json.dump and json.load of a value, of a dict, of a dict of dicts
JsonDumpValue(v) == IF v.t = "str" THEN JString(v.s) ELSE JNumber(v.n)
JsonLoadValue(x) == IF x.j = "string" THEN PyStr(x.s) ELSE PyInt(x.n)
JsonDumpObject(d) ==
    IF DOMAIN d = {} THEN EmptyDict ELSE [k \in DOMAIN d |-> JsonDumpValue(d[k])]
JsonLoadObject(o) ==
    IF DOMAIN o = {} THEN EmptyDict ELSE [k \in DOMAIN o |-> JsonLoadValue(o[k])]
JsonDump(d) == [s \in DOMAIN d |-> JsonDumpObject(d[s])]
JsonLoad(doc) ==
    IF DOMAIN doc = {} THEN EmptyDict ELSE [s \in DOMAIN doc |-> JsonLoadObject(doc[s])]

Missing == [state |-> "missing", doc |-> EmptyDict]
Invalid == [state |-> "invalid", doc |-> EmptyDict]
Written(doc) == [state |-> "object", doc |-> doc]

\* IGDBConfig.__init__ with os.getenv defaulting to ""
IGDBConfigDefaulting(kw, env) ==
    LET get(name) == IF IsNone(env[name]) THEN "" ELSE Val(env[name]) IN
    Ok([token_timestamp |->
            IF "token_timestamp" \in DOMAIN kw THEN kw["token_timestamp"] ELSE PyStr(""),
        data_refresh_limit |->
            IF "data_refresh_limit" \in DOMAIN kw THEN kw["data_refresh_limit"] ELSE PyInt(1),
        _client_id |-> get("IGDB_CLIENT_ID"),
        _client_secret |-> get("IGDB_CLIENT_SECRET"),
        _auth_token |-> get("IGDB_AUTH_TOKEN")])

\* IGDBConfig.__init__(**kw) under the environment env: the keys of kw other
\* than the two parameters are swallowed
IGDBConfig(kw, env) ==
    IF IsNone(env["IGDB_CLIENT_ID"]) THEN
        Fail("ValueError", "IGDB_CLIENT_ID environment variable is required")
    ELSE IF IsNone(env["IGDB_CLIENT_SECRET"]) THEN
        Fail("ValueError", "IGDB_CLIENT_SECRET environment variable is required")
    ELSE IF IsNone(env["IGDB_AUTH_TOKEN"]) THEN
        Fail("ValueError", "IGDB_AUTH_TOKEN environment variable is required")
    ELSE
    Ok([token_timestamp |->
            IF "token_timestamp" \in DOMAIN kw THEN kw["token_timestamp"] ELSE PyStr(""),
        data_refresh_limit |->
            IF "data_refresh_limit" \in DOMAIN kw THEN kw["data_refresh_limit"] ELSE PyInt(1),
        _client_id |-> Val(env["IGDB_CLIENT_ID"]),
        _client_secret |-> Val(env["IGDB_CLIENT_SECRET"]),
        _auth_token |-> Val(env["IGDB_AUTH_TOKEN"])])

ServerConfig == [_host |-> HOST, _port |-> PORT]
DatabaseConfig == [_db_file |-> DATABASE_FILE]

\* ConfigData.__init__
ConfigData(config_dict, env) ==
    LET igdb_data ==
            IF DOMAIN config_dict # {} /\ "igdb" \in DOMAIN config_dict
            THEN config_dict["igdb"] ELSE EmptyDict
        igdb == IGDBConfig(igdb_data, env)
    IN  IF ~igdb.ok THEN igdb
        ELSE Ok([igdb |-> Val(igdb.val), server |-> ServerConfig,
                 database |-> DatabaseConfig])

\* ConfigData.to_dict with the credentials among the igdb fields
to_dict_with_credentials(config) ==
    [igdb |-> [client_id |-> PyStr(config.igdb._client_id),
               token_timestamp |-> config.igdb.token_timestamp,
               data_refresh_limit |-> config.igdb.data_refresh_limit],
     server |-> EmptyDict, web_ui |-> EmptyDict, database |-> EmptyDict]

\* ConfigData.to_dict
to_dict(config) ==
    [igdb |-> [token_timestamp |-> config.igdb.token_timestamp,
               data_refresh_limit |-> config.igdb.data_refresh_limit],
     server |-> EmptyDict, web_ui |-> EmptyDict, database |-> EmptyDict]

\* __new__ creating an object at every call
NewObjectEveryCall(instance) == IF IsNone(instance) THEN 1 ELSE Val(instance) + 1

\* ConfigManager.__new__: the identity of the instance it returns, 1 for
\* the object it creates when cls._instance is None
__new__(instance) == IF IsNone(instance) THEN 1 ELSE Val(instance)

_UPDATABLE_FIELDS ==
    [igdb |-> {"token_timestamp", "data_refresh_limit"}, server |-> {}, database |-> {}]

\* _load_config dropping the snapshot before it reads the file
_load_config_dropping(f, env, config) ==
    IF f.state = "missing" THEN
        [config |-> None, err |-> Raise("FileNotFoundError", "Configuration file not found")]
    ELSE IF f.state = "invalid" THEN
        [config |-> None, err |-> Raise("JSONDecodeError", "Expecting value")]
    ELSE LET c == ConfigData(JsonLoad(f.doc), env) IN
         IF c.ok THEN [config |-> c.val, err |-> NoErr]
         ELSE [config |-> None, err |-> c.err]

\* ConfigManager._load_config: [config, err], config the value of _config
\* afterwards
_load_config(f, env, config) ==
    IF f.state = "missing" THEN
        [config |-> config, err |-> Raise("FileNotFoundError", "Configuration file not found")]
    ELSE IF f.state = "invalid" THEN
        [config |-> config, err |-> Raise("JSONDecodeError", "Expecting value")]
    ELSE LET c == ConfigData(JsonLoad(f.doc), env) IN
         IF c.ok THEN [config |-> c.val, err |-> NoErr]
         ELSE [config |-> config, err |-> c.err]

\* ConfigManager.save_config: [file, err]
save_config(config, f) ==
    IF IsNone(config) THEN
        [file |-> f, err |-> Raise("RuntimeError", "No configuration loaded to save")]
    ELSE [file |-> Written(JsonDump(to_dict(Val(config)))), err |-> NoErr]

\* the loop of update_config over the keyword arguments, in their order:
\* [obj, err], obj the section object as the loop left it
RECURSIVE SetAttrs(_, _, _)
SetAttrs(config_obj, allowed_fields, kw) ==
    IF kw = <<>> THEN [obj |-> config_obj, err |-> NoErr]
    ELSE IF Head(kw).key \notin allowed_fields THEN
        [obj |-> config_obj, err |-> Raise("ValueError", "Field is not updatable in section")]
    ELSE SetAttrs([config_obj EXCEPT ![Head(kw).key] = Head(kw).value],
                  allowed_fields, Tail(kw))

\* ConfigManager.update_config: [config, file, err]
update_config(config, f, section, kw) ==
    IF IsNone(config) THEN
        [config |-> config, file |-> f,
         err |-> Raise("RuntimeError", "Configuration not loaded")]
    ELSE IF section \notin DOMAIN _UPDATABLE_FIELDS THEN
        [config |-> config, file |-> f,
         err |-> Raise("ValueError", "Unknown configuration section")]
    ELSE LET set == SetAttrs(Val(config)[section], _UPDATABLE_FIELDS[section], kw)
             updated == Some([Val(config) EXCEPT ![section] = set.obj])
         IN  IF set.err # NoErr THEN [config |-> updated, file |-> f, err |-> set.err]
             ELSE LET s == save_config(updated, f) IN
                  [config |-> updated, file |-> s.file, err |-> s.err]

(***************************************************************************)
(* config/HostCart_config.py, the lenient variant: ConfigLoader.           *)
(***************************************************************************)
\* os.getenv(name)
Getenv(env, name) == IF name \in DOMAIN env THEN env[name] ELSE None

\* IGDBConfig(**kw).  The class is a dataclass that defines __init__ itself:
\* the decorator keeps the class's own __init__, and only the __init__ it
\* would have generated calls __post_init__, where the os.getenv overrides
\* are.
LenientIGDBConfig(kw) ==
    [token_timestamp |->
        IF "token_timestamp" \in DOMAIN kw THEN kw["token_timestamp"] ELSE PyStr(""),
     data_refresh_limit |->
        IF "data_refresh_limit" \in DOMAIN kw THEN kw["data_refresh_limit"] ELSE PyInt(1),
     client_id |-> "", client_secret |-> "", auth_token |-> ""]

\* ConfigData(config_dict): the igdb section, db_config.db_file and
\* server.host (the other fields of the sections are not followed)
LenientConfigData(config_dict) ==
    [igdb |-> LenientIGDBConfig(
                IF DOMAIN config_dict # {} /\ "igdb" \in DOMAIN config_dict
                THEN config_dict["igdb"] ELSE EmptyDict),
     db_file |-> "", host |-> HOST]

\* ConfigLoader._load_env_overrides: DATABASE_FILE and SERVER_HOST, when set
\* and not empty, replace db_file and host; no igdb field is assigned
_load_env_overrides(config, env) ==
    LET set(name) == ~IsNone(Getenv(env, name)) /\ Val(Getenv(env, name)) # "" IN
    [config EXCEPT
        !.db_file = IF set("DATABASE_FILE") THEN Val(Getenv(env, "DATABASE_FILE")) ELSE @,
        !.host = IF set("SERVER_HOST") THEN Val(Getenv(env, "SERVER_HOST")) ELSE @]

\* ConfigLoader._load_config: [config, err]
Lenient_load_config(f, env, config) ==
    IF f.state = "missing" THEN
        [config |-> config, err |-> Raise("FileNotFoundError", "Configuration file not found")]
    ELSE IF f.state = "invalid" THEN
        [config |-> config, err |-> Raise("JSONDecodeError", "Expecting value")]
    ELSE [config |-> Some(_load_env_overrides(LenientConfigData(JsonLoad(f.doc)), env)),
          err |-> NoErr]

\* the environments, the files and the calls of the configuration's users
EnvNames == {"IGDB_CLIENT_ID", "IGDB_CLIENT_SECRET", "IGDB_AUTH_TOKEN"}
FullEnv ==
    [IGDB_CLIENT_ID |-> Some("test_client_id"),
     IGDB_CLIENT_SECRET |-> Some("test_client_secret"),
     IGDB_AUTH_TOKEN |-> Some("test_auth_token")]

OtherClientId == Some("other_client_id")

\* what a variable may be: unset, or one of its values
EnvValues(name) ==
    {None, FullEnv[name]} \cup (IF name = "IGDB_CLIENT_ID" THEN {OtherClientId} ELSE {})

SampleDoc ==
    [igdb |-> [client_id |-> JString("file_client_id"),
               _client_id |-> JString("file_client_id"),
               auth_token |-> JString("file_token"),
               token_timestamp |-> JString("2023-01-01T00:00:00Z"),
               data_refresh_limit |-> JNumber(5)],
     server |-> EmptyDict]

FileContents ==
    {Missing, Invalid, Written(EmptyDict), Written(SampleDoc),
     Written([server |-> EmptyDict])}

Kw(key, value) == [key |-> key, value |-> value]

UpdateKwargs ==
    {<<>>,
     <<Kw("data_refresh_limit", PyInt(20))>>,
     <<Kw("token_timestamp", PyStr("2024-01-01T00:00:00Z")), Kw("data_refresh_limit", PyInt(10))>>,
     <<Kw("unknown_field", PyStr("value"))>>,
     <<Kw("data_refresh_limit", PyInt(20)), Kw("client_id", PyStr("x"))>>,
     <<Kw("client_id", PyStr("x")), Kw("data_refresh_limit", PyInt(20))>>}

Sections == {"igdb", "server", "database", "unknown"}

\* the configuration GameCollectionManager() finds loaded
Loaded ==
    /\ NoCalls
    /\ environ = FullEnv
    /\ file = Written(SampleDoc)
    /\ _instance = Some(__new__(None))
    /\ _config = _load_config(Written(SampleDoc), FullEnv, None).config
    /\ kwargs = <<>>

(***************************************************************************)
(* The state machine: one caller holding one UserGame, and the store.      *)
(***************************************************************************)
\* the last operation: its name and its arguments (game_id, id or tag_name),
\* for add_user_game whether the record was the held or a fresh one, and
\* for a construction the game_id, played_time, tag names and name passed
Op(name, game_id, id, tag, arg) ==
    [name |-> name, game_id |-> game_id, id |-> id, tag |-> tag, arg |-> arg]

Init ==
    /\ rows = {}
    /\ held = None
    /\ heldRow = "none"
    /\ op = Op("init", "", 0, <<>>, "")
    /\ ret = RetNone
    /\ err = NoErr
    /\ connects = 0
    /\ Loaded

\* the store's part of a step
Store(o) ==
    /\ rows' = o.table
    /\ ret' = o.ret
    /\ err' = o.err
    /\ connects' = o.connects
    /\ UNCHANGED <<cfgVars, connVars>>

\* held was read from a row that this step deletes
Orphaned(table) ==
    /\ heldRow = "live"
    /\ Val(held).id # None
    /\ Val(Val(held).id) \notin Ids(table)

\* the caller builds a record
Construct(choices) ==
    \E a \in choices, now \in Clock :
        LET c == NewUserGame(a, now) IN
        /\ held' = IF c.ok THEN c.val ELSE held
        /\ heldRow' = IF c.ok THEN "none" ELSE heldRow
        /\ op' = Op("construct", a.game_id, a.played_time,
                    [i \in 1..Len(a.tags) |-> a.tags[i].name], a.name)
        /\ ret' = RetNone
        /\ err' = c.err
        /\ connects' = 0
        /\ UNCHANGED <<rows, cfgVars, connVars>>

\* the caller adds the record it holds, or one built for the call
AddUserGame ==
    \E arg \in {"held", "fresh"} :
        LET user_game == IF arg = "held" THEN held ELSE Some(FreshRecord) IN
        /\ user_game # None
        /\ NextRowid(rows) <= MaxId
        /\ Store(add_user_game(rows, Val(user_game)))
        /\ op' = Op("add", Val(user_game).game.game_id, 0, <<>>, arg)
        /\ UNCHANGED <<held, heldRow>>

GetUserGameByGameId ==
    \E game_id \in GameIds :
        /\ Store(get_user_game_by_game_id(rows, game_id))
        /\ op' = Op("get", game_id, 0, <<>>, "")
        /\ UNCHANGED <<held, heldRow>>

\* the caller keeps the record the lookup returned
Adopt ==
    /\ op.name = "get"
    /\ ret.kind = "game"
    /\ held' = Some(ret.games[1])
    /\ heldRow' = "live"
    /\ op' = Op("adopt", op.game_id, 0, <<>>, "")
    /\ UNCHANGED <<rows, ret, err, connects, cfgVars, connVars>>

UpdateUserGame ==
    /\ held # None
    /\ Store(update_user_game(rows, Val(held)))
    /\ op' = Op("update", Val(held).game.game_id, 0, <<>>, "")
    /\ UNCHANGED <<held, heldRow>>

DeleteUserGame ==
    \E id \in 1..MaxId :
        LET o == delete_user_game(rows, id) IN
        /\ Store(o)
        /\ op' = Op("delete", "", id, <<>>, "")
        /\ heldRow' = IF Orphaned(o.table) THEN "deleted" ELSE heldRow
        /\ UNCHANGED held

DeleteUserGameByGameId ==
    \E game_id \in GameIds :
        LET o == delete_user_game_by_game_id(rows, game_id) IN
        /\ Store(o)
        /\ op' = Op("delete_by_game_id", game_id, 0, <<>>, "")
        /\ heldRow' = IF Orphaned(o.table) THEN "deleted" ELSE heldRow
        /\ UNCHANGED held

ClearTags ==
    /\ held # None
    /\ held' = Some(clear_tags(Val(held)))
    /\ op' = Op("clear_tags", "", 0, <<>>, "")
    /\ ret' = RetId(Len(Val(held).tags))
    /\ err' = NoErr
    /\ connects' = 0
    /\ rows' = InMemory(rows, Val(held'))
    /\ UNCHANGED <<heldRow, cfgVars, connVars>>

UpdatePlaytime ==
    \E additional_minutes \in PlaytimeSteps, now \in Clock :
        /\ held # None
        /\ Val(held).played_time + additional_minutes \in (-MaxPlayed)..MaxPlayed
        /\ held' = Some(update_playtime(Val(held), additional_minutes, now))
        /\ op' = Op("update_playtime", "", 0, <<>>, "")
        /\ ret' = RetNone
        /\ err' = NoErr
        /\ connects' = 0
        /\ rows' = InMemory(rows, Val(held'))
        /\ UNCHANGED <<heldRow, cfgVars, connVars>>

GetUserGamesByTag ==
    \E tag_name \in TagQueries :
        \E fetched \in Fetches(LikeTag(rows, tag_name)) :
            /\ Store(get_user_games_by_tag(rows, tag_name, fetched))
            /\ op' = Op("by_tag", "", 0, tag_name, "")
            /\ UNCHANGED <<held, heldRow>>

\* a row is found in the table
InitRow ==
    /\ rows \in {{r} : r \in FoundRows}
    /\ held = None
    /\ heldRow = "none"
    /\ op = Op("init", "", 0, <<>>, "")
    /\ ret = RetNone
    /\ err = NoErr
    /\ connects = 0
    /\ Loaded

\* a read converts the row
RowToUserGame ==
    \E row \in rows :
        LET c == _row_to_user_game(row) IN
        /\ ret' = IF c.ok THEN RetGame(Val(c.val)) ELSE RetNone
        /\ err' = c.err
        /\ op' = Op("convert", "", row.id, <<>>, "")
        /\ connects' = 0
        /\ UNCHANGED <<rows, held, heldRow, cfgVars, connVars>>

\* the sample record is stored
InitStored ==
    /\ rows = add_user_game({}, SampleRecord).table
    /\ held = None
    /\ heldRow = "none"
    /\ op = Op("init", "", 0, <<>>, "")
    /\ ret = RetNone
    /\ err = NoErr
    /\ connects = 0
    /\ Loaded

\* the caller's part of a step that changes the held record in memory
Mutated(name, tag_name, ug, r) ==
    /\ held' = Some(ug)
    /\ op' = Op(name, "", 0, tag_name, "")
    /\ ret' = r
    /\ err' = NoErr
    /\ connects' = 0
    /\ rows' = InMemory(rows, ug)
    /\ UNCHANGED <<heldRow, cfgVars, connVars>>

\* a method that returns a bool, and one that returns a count
Tagged(name, tag_name, m) == Mutated(name, tag_name, m.ug, RetBool(m.ret))

Counted(name, tags, m) == Mutated(name, TagNames(tags), m.ug, RetId(m.ret))

AddTag(tags) ==
    \E tag \in tags :
        /\ held # None
        /\ Tagged("add_tag", tag.name, add_tag(Val(held), tag))

\* op.tag is the names of the tags passed, one after the other
AddTags(lists) ==
    \E tags \in lists :
        /\ held # None
        /\ Counted("add_tags", tags, add_tags(Val(held), tags, 0))

RemoveTag(tags) ==
    \E tag \in tags :
        /\ held # None
        /\ Tagged("remove_tag", tag.name, remove_tag(Val(held), tag))

RemoveTagByName(names) ==
    \E tag_name \in names :
        /\ held # None
        /\ Tagged("remove_tag_by_name", tag_name, remove_tag_by_name(Val(held), tag_name))

MarkAsCompleted ==
    \E now \in Clock :
        /\ held # None
        /\ Mutated("mark_as_completed", <<>>, mark_as_completed(Val(held), now), RetNone)

\* user_game.notes = ...
AssignNotes ==
    \E notes \in NewNotes :
        /\ held # None
        /\ Mutated("assign", <<>>, [Val(held) EXCEPT !.notes = notes], RetNone)

LoadAllUserGames ==
    \E fetched \in Fetches(rows) :
        /\ Store(load_all_user_games(rows, fetched))
        /\ op' = Op("load_all", "", 0, <<>>, "")
        /\ UNCHANGED <<held, heldRow>>

GetUserGamesByStatus ==
    \E status \in StatusQueries :
        \E fetched \in Fetches(StatusRows(rows, status)) :
            /\ Store(get_user_games_by_status(rows, status, fetched))
            /\ op' = Op("by_status", "", 0, <<>>, status)
            /\ UNCHANGED <<held, heldRow>>

\* get_user_games_by_tag for the names of the listing records
ListUserGamesByTag ==
    \E tag_name \in ListTagQueries :
        \E fetched \in Fetches(LikeTag(rows, tag_name)) :
            /\ Store(get_user_games_by_tag(rows, tag_name, fetched))
            /\ op' = Op("by_tag", "", 0, tag_name, "")
            /\ UNCHANGED <<held, heldRow>>

Next ==
    \/ Construct(CrudChoices)
    \/ AddUserGame
    \/ GetUserGameByGameId
    \/ Adopt
    \/ UpdateUserGame
    \/ DeleteUserGame
    \/ DeleteUserGameByGameId
    \/ ClearTags
    \/ UpdatePlaytime

Spec == Init /\ [][Next]_vars

\* the store under tag queries
NextTag ==
    \/ Construct(TagChoices)
    \/ AddUserGame
    \/ GetUserGamesByTag
    \/ DeleteUserGameByGameId

SpecTag == Init /\ [][NextTag]_vars

\* the store under the listing operations
NextList ==
    \/ Construct(ListChoices)
    \/ AddUserGame
    \/ LoadAllUserGames
    \/ GetUserGamesByStatus
    \/ ListUserGamesByTag
    \/ DeleteUserGame

SpecList == Init /\ [][NextList]_vars

\* row conversion over the rows a damaged file may hold
NextRow ==
    \/ RowToUserGame

SpecRow == InitRow /\ [][NextRow]_vars

\* a stored record read, changed in memory, read again and written back
NextMutate ==
    \/ GetUserGameByGameId
    \/ Adopt
    \/ AddTag(NewTags)
    \/ RemoveTagByName(RemovedTags)
    \/ ClearTags
    \/ MarkAsCompleted
    \/ UpdatePlaytime
    \/ AssignNotes
    \/ UpdateUserGame

SpecMutate == InitStored /\ [][NextMutate]_vars

(***************************************************************************)
(* The configuration: one process, its environment and the file on disk.   *)
(***************************************************************************)
\* a process starts: nothing is loaded
InitConfig ==
    /\ rows = {}
    /\ held = None
    /\ heldRow = "none"
    /\ op = Op("init", "", 0, <<>>, "")
    /\ ret = RetNone
    /\ err = NoErr
    /\ connects = 0
    /\ environ = FullEnv
    /\ file = Written(SampleDoc)
    /\ _instance = None
    /\ _config = None
    /\ NoCalls
    /\ kwargs = <<>>

\* the last operation on the configuration and its section argument
ConfigOp(name, section) == Op(name, "", 0, <<>>, section)

\* ConfigManager(): __new__ gives the instance, __init__ loads when nothing
\* is loaded yet; op.id is the identity of the instance the call returned,
\* 0 when __init__ raised
NewConfigManager ==
    LET l == IF IsNone(_config) THEN _load_config(file, environ, _config)
             ELSE [config |-> _config, err |-> NoErr] IN
    /\ _instance' = Some(__new__(_instance))
    /\ _config' = l.config
    /\ err' = l.err
    /\ op' = Op("ConfigManager", "", IF l.err = NoErr THEN __new__(_instance) ELSE 0,
                <<>>, "")
    /\ kwargs' = <<>>
    /\ UNCHANGED <<environ, file, dbVars, connVars>>

\* the methods are called on the instance a successful ConfigManager() gave
ReloadConfig ==
    /\ ~IsNone(_config)
    /\ LET l == _load_config(file, environ, _config) IN
        /\ _config' = l.config
        /\ err' = l.err
    /\ op' = ConfigOp("reload_config", "")
    /\ kwargs' = <<>>
    /\ UNCHANGED <<environ, file, _instance, dbVars, connVars>>

SaveConfig ==
    /\ ~IsNone(_config)
    /\ LET s == save_config(_config, file) IN
        /\ file' = s.file
        /\ err' = s.err
    /\ op' = ConfigOp("save_config", "")
    /\ kwargs' = <<>>
    /\ UNCHANGED <<environ, _instance, _config, dbVars, connVars>>

UpdateConfig ==
    \E section \in Sections, kw \in UpdateKwargs :
        /\ ~IsNone(_config)
        /\ LET u == update_config(_config, file, section, kw) IN
            /\ _config' = u.config
            /\ file' = u.file
            /\ err' = u.err
        /\ op' = ConfigOp("update_config", section)
        /\ kwargs' = kw
        /\ UNCHANGED <<environ, _instance, dbVars, connVars>>

\* the environment of the process changes
SetEnv ==
    \E name \in EnvNames :
      \E value \in EnvValues(name) :
        /\ environ[name] # value
        /\ environ' = [environ EXCEPT ![name] = value]
        /\ op' = ConfigOp("setenv", "")
        /\ err' = NoErr
        /\ kwargs' = <<>>
        /\ UNCHANGED <<file, _instance, _config, dbVars, connVars>>

\* the file is edited, replaced or removed on disk
WriteFile ==
    \E f \in FileContents :
        /\ file # f
        /\ file' = f
        /\ op' = ConfigOp("write_file", "")
        /\ err' = NoErr
        /\ kwargs' = <<>>
        /\ UNCHANGED <<environ, _instance, _config, dbVars, connVars>>

NextConfig ==
    \/ NewConfigManager
    \/ ReloadConfig
    \/ SaveConfig
    \/ UpdateConfig
    \/ SetEnv
    \/ WriteFile

SpecConfig == InitConfig /\ [][NextConfig]_vars

\* a caller working on the tags of its record
NextTagMethods ==
    \/ Construct(TagMethodChoices)
    \/ AddTag(TagMethodTags)
    \/ AddTags(TagMethodLists)
    \/ RemoveTag(TagMethodTags)
    \/ RemoveTagByName({Favorite, FavoriteLower, Fav, Wishlist})
    \/ ClearTags

SpecTagMethods == Init /\ [][NextTagMethods]_vars

\* ConfigLoader(): __init__ loads when nothing is loaded yet
NewConfigLoader ==
    LET l == IF IsNone(_config) THEN Lenient_load_config(file, environ, _config)
             ELSE [config |-> _config, err |-> NoErr] IN
    /\ _instance' = Some(__new__(_instance))
    /\ _config' = l.config
    /\ err' = l.err
    /\ op' = Op("ConfigLoader", "", IF l.err = NoErr THEN __new__(_instance) ELSE 0,
                <<>>, IF IsNone(_config) THEN "load" ELSE "")
    /\ kwargs' = <<>>
    /\ UNCHANGED <<environ, file, dbVars, connVars>>

\* ConfigLoader.set_igdb_credentials(client_id, client_secret)
SetIgdbCredentials ==
    /\ ~IsNone(_config)
    /\ _config' = Some([Val(_config) EXCEPT !.igdb.client_id = Val(OtherClientId),
                                            !.igdb.client_secret = "other_client_secret"])
    /\ err' = NoErr
    /\ op' = ConfigOp("set_igdb_credentials", "")
    /\ kwargs' = <<>>
    /\ UNCHANGED <<environ, file, _instance, dbVars, connVars>>

\* the lenient configuration of a process
NextLoader ==
    \/ NewConfigLoader
    \/ SetIgdbCredentials
    \/ SetEnv
    \/ WriteFile

SpecLoader == InitConfig /\ [][NextLoader]_vars

\* two callers of one store
NextCallers ==
    \E c \in Callers :
        \/ Connect(c)
        \/ Configure(c)
        \/ ConfigureFails(c)
        \/ ExecuteInsert(c)
        \/ BusyTimeout(c)
        \/ Commit(c)
        \/ ExecuteSelect(c)
        \/ Close(c)
        \/ Finalize(c)

SpecCallers == Init /\ [][NextCallers]_vars

(***************************************************************************)
(* Properties.                                                             *)
(***************************************************************************)
HeldId == Val(held).id
HeldGameId == Val(held).game.game_id
Stored(game_id) == \E r \in rows : r.v.game_id = Some(game_id)

\* the constructors' checks hold of the record (they are made at
\* construction only)
Valid(ug) ==
    /\ ug.game.game_id # "" /\ ug.game.name # ""
    /\ ug.tags # <<>> /\ ug.played_time >= 0

\* the persisted fields of a record: all but the internal id, and of the
\* tags their names, in order
Persisted(ug) == [ug EXCEPT !.id = None, !.tags = get_tag_names(ug)]

EmptyAsAbsent(l) == IF l = Some(<<>>) THEN None ELSE l

\* the persisted fields with every empty list column absent
EmptyListsAbsent(p) ==
    [p EXCEPT !.game.genres = EmptyAsAbsent(@),
              !.game.platforms = EmptyAsAbsent(@),
              !.game.screenshots = EmptyAsAbsent(@)]

\* C1: in every reachable state no two rows of user_games share a game_id
\* and no two rows share an internal id.
UniqueKeys ==
    \A r1, r2 \in rows :
        (r1.id = r2.id \/ r1.v.game_id = r2.v.game_id) => r1 = r2

\* two rows are stored and a write has just been refused for its game_id
UniqueKeysWitness ==
    /\ Cardinality(rows) = 2
    /\ op.name \in {"add", "update"}
    /\ err.msg = "UNIQUE constraint failed: user_games.game_id"

\* C2: an add_user_game whose record's game_id is held by a stored row
\* raises sqlite3.IntegrityError, returns nothing and leaves the table as
\* it was.
DuplicateAddRefused ==
    [][(op'.name = "add" /\ Stored(op'.game_id)) =>
        /\ err'.type = "IntegrityError"
        /\ ret' = RetNone
        /\ rows' = rows]_vars

\* a valid record has just been refused because its game_id is stored
DuplicateAddWitness ==
    /\ op.name = "add"
    /\ op.arg = "held"
    /\ Valid(Val(held))
    /\ Stored(HeldGameId)
    /\ err = Raise("IntegrityError", "UNIQUE constraint failed: user_games.game_id")

\* a lookup of the held record's game_id right after the held, valid
\* record was added
LookupAfterAdd ==
    /\ op.name = "add" /\ op.arg = "held" /\ ret.kind = "id"
    /\ Valid(Val(held))
    /\ op'.name = "get" /\ op'.game_id = HeldGameId

\* C3 as claimed: the lookup after add_user_game(g) returns a record equal
\* to g in every persisted field.
RoundTrip ==
    [][LookupAfterAdd =>
        /\ ret'.kind = "game"
        /\ Persisted(ret'.games[1]) = Persisted(Val(held))]_vars

\* C3 as amended: the lookup after add_user_game(g) returns a record equal
\* to g in every persisted field, timestamps included, except that an empty
\* genres, platforms or screenshots list comes back absent; its internal
\* id is the one add_user_game returned.
RoundTripEmptyListsAbsent ==
    [][LookupAfterAdd =>
        /\ ret'.kind = "game"
        /\ Persisted(ret'.games[1]) = EmptyListsAbsent(Persisted(Val(held)))
        /\ ret'.games[1].id = Some(ret.n)]_vars

\* a constructed record with empty lists and timestamps has been stored
\* and read back, its lists absent
RoundTripWitness ==
    /\ op.name = "get" /\ ret.kind = "game"
    /\ held # None /\ heldRow = "none" /\ IsNone(HeldId) /\ Valid(Val(held))
    /\ op.game_id = HeldGameId
    /\ Val(held).game.genres = Some(<<>>)
    /\ Val(held).game.release_date = Some(Jan6)
    /\ ret.games[1].game.genres = None
    /\ Persisted(ret.games[1]) = EmptyListsAbsent(Persisted(Val(held)))

\* the tag names a row holds
RowTagNames(r) == JsonLoads(Val(r.v.tags)).val

\* the row has a tag whose name equals tag_name up to case
RowHasTag(r, tag_name) ==
    \E k \in 1..Len(RowTagNames(r)) : PyLower(RowTagNames(r)[k]) = PyLower(tag_name)

\* C4: every game get_user_games_by_tag(t) returns is a stored row with a
\* tag whose name equals t up to case.
TagResultsMatch ==
    (op.name = "by_tag" /\ err = NoErr) =>
        \A i \in 1..Len(ret.games) :
            \E r \in rows : Some(r.id) = ret.games[i].id /\ RowHasTag(r, op.tag)

\* a game tagged "Favorite" is stored, and "Fav" has been asked for and
\* found nothing
TagResultsMatchWitness ==
    /\ op.name = "by_tag" /\ op.tag = Fav /\ err = NoErr
    /\ \E r \in rows : RowTagNames(r) = <<Favorite>>
    /\ ret.games = <<>>

\* C5 as claimed: get_user_games_by_tag(t) returns every stored row with a
\* tag whose name equals t up to case.
TagResultsComplete ==
    (op.name = "by_tag" /\ err = NoErr) =>
        \A r \in rows :
            RowHasTag(r, op.tag) =>
                \E i \in 1..Len(ret.games) : ret.games[i].id = Some(r.id)

\* C6: update_user_game with a record that has no internal id returns
\* False, raises nothing, leaves the table as it was and opens no
\* connection.
UpdateWithoutIdIsNoOp ==
    [][(op'.name = "update" /\ IsNone(HeldId)) =>
        /\ ret' = RetBool(FALSE)
        /\ err' = NoErr
        /\ rows' = rows
        /\ connects' = 0]_vars

\* an update with an id-less record of a stored game has returned False
UpdateWithoutIdWitness ==
    /\ op.name = "update"
    /\ held # None /\ IsNone(HeldId) /\ Stored(HeldGameId)
    /\ ret = RetBool(FALSE)
    /\ connects = 0

\* C7 as claimed: update_user_game with a record whose internal id is the
\* id of no stored row, or was read from a row that has been deleted since,
\* returns False and leaves the table as it was.
StaleUpdateRefused ==
    [][(/\ op'.name = "update"
        /\ ~IsNone(HeldId)
        /\ (heldRow = "deleted" \/ Val(HeldId) \notin Ids(rows))) =>
        /\ ret' = RetBool(FALSE)
        /\ rows' = rows]_vars

\* what the held record's update meets in the table
UpdateHits == ~IsNone(HeldId) /\ Val(HeldId) \in Ids(rows)
UpdateRefused ==
    \/ Val(held).tags = <<>>
    \/ \E r \in rows : r.id # Val(HeldId) /\ r.v.game_id = Some(HeldGameId)

\* C8 as claimed: update_user_game with a record whose internal id is the
\* id of a stored row returns True, leaves the other rows and the number
\* of rows as they were, and the lookup that follows returns the record's
\* values.
UpdateWritesRecord ==
    [][/\ (op'.name = "update" /\ UpdateHits) =>
            /\ ret' = RetBool(TRUE)
            /\ Cardinality(rows') = Cardinality(rows)
            /\ \A r \in rows : r.id # Val(HeldId) => r \in rows'
       /\ (/\ op.name = "update" /\ ret = RetBool(TRUE)
           /\ op'.name = "get" /\ op'.game_id = HeldGameId) =>
            /\ ret'.kind = "game"
            /\ Persisted(ret'.games[1]) = Persisted(Val(held))]_vars

\* C8 as amended: such an update raises sqlite3.IntegrityError and leaves
\* the table as it was when the record's game_id is held by another row or
\* its tag list is empty; otherwise it returns True, leaves the other rows
\* and the number of rows as they were, and the lookup that follows returns
\* the record's values under its id (empty list columns absent), or raises
\* ValueError when the record's played_time is negative.
UpdateWritesRecordUnlessRefused ==
    [][/\ (op'.name = "update" /\ UpdateHits) =>
            IF UpdateRefused
            THEN /\ err'.type = "IntegrityError"
                 /\ ret' = RetNone
                 /\ rows' = rows
            ELSE /\ ret' = RetBool(TRUE)
                 /\ err' = NoErr
                 /\ Cardinality(rows') = Cardinality(rows)
                 /\ \A r \in rows : r.id # Val(HeldId) => r \in rows'
       /\ (/\ op.name = "update" /\ ret = RetBool(TRUE)
           /\ op'.name = "get" /\ op'.game_id = HeldGameId) =>
            IF Val(held).played_time >= 0
            THEN /\ ret'.kind = "game"
                 /\ Persisted(ret'.games[1]) = EmptyListsAbsent(Persisted(Val(held)))
                 /\ ret'.games[1].id = HeldId
            ELSE /\ ret' = RetNone
                 /\ err'.type = "ValueError"]_vars

\* an update with a record read from the store and changed since has
\* returned True, and one of the two rows holds the record's values
UpdateWitness ==
    /\ op.name = "update" /\ ret = RetBool(TRUE)
    /\ Cardinality(rows) = 2
    /\ heldRow = "live"
    /\ ~IsNone(Val(held).last_played)
    /\ \E r \in rows : r.id = Val(HeldId) /\ r.v = RowValues(Val(held))

\* C9: a lookup or a delete of a key that is not stored returns None,
\* respectively False, raises nothing and leaves the table as it was.
MissingKeyIsNotAnError ==
    [][/\ (op'.name = "get" /\ ~Stored(op'.game_id)) =>
            ret' = RetNone /\ err' = NoErr /\ rows' = rows
       /\ (op'.name = "delete" /\ op'.id \notin Ids(rows)) =>
            ret' = RetBool(FALSE) /\ err' = NoErr /\ rows' = rows
       /\ (op'.name = "delete_by_game_id" /\ ~Stored(op'.game_id)) =>
            ret' = RetBool(FALSE) /\ err' = NoErr /\ rows' = rows]_vars

\* a delete by an id that no row of a non-empty table has returned False
MissingKeyWitness ==
    /\ op.name = "delete"
    /\ rows # {} /\ op.id \notin Ids(rows)
    /\ ret = RetBool(FALSE)
    /\ err = NoErr

\* C10: a delete of a stored key returns True and removes the row with that
\* key and no other row, so that a lookup of the row's game_id then finds
\* nothing.
DeleteRemovesOneRow ==
    [][/\ (op'.name = "delete" /\ op'.id \in Ids(rows)) =>
            /\ ret' = RetBool(TRUE)
            /\ \E r \in rows :
                /\ r.id = op'.id
                /\ rows' = rows \ {r}
                /\ get_user_game_by_game_id(rows', Val(r.v.game_id)).ret = RetNone
       /\ (op'.name = "delete_by_game_id" /\ Stored(op'.game_id)) =>
            /\ ret' = RetBool(TRUE)
            /\ \E r \in rows :
                /\ r.v.game_id = Some(op'.game_id)
                /\ rows' = rows \ {r}
                /\ get_user_game_by_game_id(rows', op'.game_id).ret = RetNone
       /\ (/\ op.name = "delete_by_game_id" /\ ret = RetBool(TRUE)
           /\ op'.name = "get" /\ op'.game_id = op.game_id) =>
            ret' = RetNone /\ err' = NoErr]_vars

\* a delete by game_id has removed one of two rows
DeleteWitness ==
    /\ op.name = "delete_by_game_id"
    /\ ret = RetBool(TRUE)
    /\ Cardinality(rows) = 1
    /\ ~Stored(op.game_id)

\* a < b of two datetimes: naive ones compare by their wall-clock fields,
\* aware ones by their UTC instant; a naive and an aware one do not compare
Older(a, b) ==
    IF IsNone(a.tz) /\ IsNone(b.tz)
    THEN a.day < b.day \/ (a.day = b.day /\ a.us < b.us)
    ELSE IF ~IsNone(a.tz) /\ ~IsNone(b.tz)
    THEN \/ a.day - Val(a.tz) < b.day - Val(b.tz)
         \/ (a.day - Val(a.tz) = b.day - Val(b.tz) /\ a.us < b.us)
    ELSE FALSE

\* C11 as claimed: load_all_user_games returns every stored row exactly
\* once, and the list load_all_user_games, get_user_games_by_status or
\* get_user_games_by_tag returns holds no game right before a game with a
\* newer date_added.
ListedOnceNewestFirst ==
    /\ (op.name = "load_all" /\ err = NoErr) =>
        /\ Len(ret.games) = Cardinality(rows)
        /\ \A r \in rows : \E i \in 1..Len(ret.games) : ret.games[i].id = Some(r.id)
    /\ (op.name \in {"load_all", "by_status", "by_tag"} /\ err = NoErr) =>
        \A i \in 1..(Len(ret.games) - 1) :
            ~Older(ret.games[i].date_added, ret.games[i + 1].date_added)

\* C12: get_user_games_by_status(s) returns the stored rows whose status
\* is s, each once, and no other row.
StatusResultsExact ==
    (op.name = "by_status" /\ err = NoErr) =>
        /\ \A i \in 1..Len(ret.games) :
            /\ ret.games[i].status = op.arg
            /\ \E r \in rows :
                Some(r.id) = ret.games[i].id /\ r.v.status = Some(StatusValue(op.arg))
        /\ \A r \in rows :
            r.v.status = Some(StatusValue(op.arg)) =>
                \E i \in 1..Len(ret.games) : ret.games[i].id = Some(r.id)
        /\ Len(ret.games) = Cardinality({r \in rows : r.v.status = Some(StatusValue(op.arg))})

\* two rows of different statuses are stored and the listing by the status
\* of one has returned that one alone
StatusResultsWitness ==
    /\ op.name = "by_status" /\ op.arg = "PLAYING" /\ err = NoErr
    /\ Cardinality(rows) = 2
    /\ Len(ret.games) = 1
    /\ \E r \in rows : r.v.status = Some("completed")

\* the row that was converted
Found == CHOOSE r \in rows : TRUE

\* the tags column is NULL, empty, not JSON, or JSON for the empty list
BadTags(v) == IsNone(_parse_json_field(v.tags)) \/ _parse_json_field(v.tags) = Some(<<>>)

\* a required column of the row is NULL or empty
NullOrEmpty(v) ==
    \/ v.game_id \in {None, Some("")} \/ v.name \in {None, Some("")}
    \/ BadTags(v) \/ v.date_added \in {None, Some(<<>>)}
    \/ v.status \in {None, Some("")} \/ IsNone(v.played_time)

\* the required columns of the row that are NULL or empty
Offending(v) ==
    {c \in NotNullColumns :
        CASE c = "game_id" -> v.game_id \in {None, Some("")}
          [] c = "name" -> v.name \in {None, Some("")}
          [] c = "tags" -> BadTags(v)
          [] c = "date_added" -> v.date_added \in {None, Some(<<>>)}
          [] c = "status" -> v.status \in {None, Some("")}
          [] c = "played_time" -> IsNone(v.played_time)}

\* the error says the database is corrupted
LabeledCorruption(e) ==
    /\ e.type = "ValueError"
    /\ e.msg \in {"cannot be NULL in database, database is corrupted.",
                  "Tags cannot be NULL or empty in database, database is corrupted."}

FirstNull(v) ==
    IF BadTags(v) THEN "tags"
    ELSE IF IsNone(v.date_added) THEN "date_added"
    ELSE IF IsNone(v.status) THEN "status"
    ELSE IF IsNone(v.played_time) THEN "played_time"
    ELSE ""

UndecodableListsAbsent ==
    /\ (/\ op.name = "convert"
        /\ ~NullOrEmpty(Found.v)
        /\ GameStatus(Val(Found.v.status)).ok) =>
        /\ ret.kind = "game" /\ err = NoErr
        /\ \A text \in {Truncated, NotJson} :
            /\ Found.v.genres = Some(text) => IsNone(ret.games[1].game.genres)
            /\ Found.v.platforms = Some(text) => IsNone(ret.games[1].game.platforms)
            /\ Found.v.screenshots = Some(text) => IsNone(ret.games[1].game.screenshots)
    /\ (op.name = "convert" /\ Found.v.tags \in {Some(Truncated), Some(NotJson)}) =>
        ret = RetNone /\ err.type = "ValueError"

\* a sound row whose genres and screenshots are not JSON has been
\* converted, both fields absent and its platforms read
UndecodableListsWitness ==
    /\ op.name = "convert" /\ ret.kind = "game"
    /\ Found.v.genres = Some(Truncated) /\ Found.v.screenshots = Some(NotJson)
    /\ IsNone(ret.games[1].game.genres) /\ IsNone(ret.games[1].game.screenshots)
    /\ ret.games[1].game.platforms = Some(<<PC>>)

\* the arguments of the construction break one of the constructors' checks
Rejected(o) == o.game_id = "" \/ o.arg = "" \/ o.tag = <<>> \/ o.id < 0

\* the construction raises ValueError and the caller gets no object
ConstructionFails ==
    /\ err'.type = "ValueError"
    /\ held' = held /\ heldRow' = heldRow
    /\ rows' = rows /\ connects' = 0

\* the construction gives the caller a record of its arguments
ConstructionSucceeds ==
    /\ err' = NoErr
    /\ held' # None
    /\ Val(held').game.game_id = op'.game_id /\ Val(held').game.name = op'.arg
    /\ Val(held').played_time = op'.id /\ get_tag_names(Val(held')) = op'.tag
    /\ rows' = rows /\ connects' = 0

\* C15 as claimed: a construction with an empty id, an empty name, an empty
\* tag list or a negative played_time raises ValueError and gives no
\* object, every other construction succeeds, and the record passed to
\* add_user_game or update_user_game never has an empty id, name or tag
\* list or a negative played_time.
ValidatedBeforeStorage ==
    [][/\ op'.name = "construct" =>
            IF Rejected(op') THEN ConstructionFails ELSE ConstructionSucceeds
       /\ (op'.name \in {"add", "update"} /\ op'.arg # "fresh") =>
            Valid(Val(held))]_vars

\* C15 as amended: a construction with an empty id, an empty name, an empty
\* tag list or a negative played_time raises ValueError, gives no object
\* and touches no row; every other construction, that with played_time 0
\* and one tag among them, gives a record of its arguments.
ValidatedAtConstruction ==
    [][op'.name = "construct" =>
            IF Rejected(op') THEN ConstructionFails ELSE ConstructionSucceeds]_vars

\* a construction with an empty tag list has been refused, the caller still
\* holding the record read from the store before
ValidatedWitness ==
    /\ op.name = "construct" /\ op.tag = <<>> /\ op.id = 120
    /\ err = Raise("ValueError", "Tags must not empty.")
    /\ held # None /\ heldRow = "live"

\* the steps that change the held record in memory
Mutations ==
    {"add_tag", "remove_tag_by_name", "clear_tags", "mark_as_completed",
     "update_playtime", "assign"}

\* C16: a method of UserGame or an assignment to its fields changes no
\* stored row, so that every read gives after it what it gave before it,
\* and a read changes no row either: the rows stay as the last
\* add_user_game or update_user_game left them.
MutationNotPersisted ==
    [][/\ op'.name \in Mutations =>
            /\ rows' = rows
            /\ \A g \in GameIds :
                get_user_game_by_game_id(rows', g).ret = get_user_game_by_game_id(rows, g).ret
       /\ op'.name = "get" =>
            /\ rows' = rows
            /\ ret' = get_user_game_by_game_id(rows, op'.game_id).ret]_vars

\* the held record was read from its row and marked as completed since,
\* and a read of its game has just returned it still playing
MutationWitness ==
    /\ op.name = "get" /\ ret.kind = "game"
    /\ heldRow = "live" /\ ret.games[1].id = HeldId
    /\ Val(held).status = "COMPLETED" /\ ret.games[1].status = "PLAYING"
    /\ ~IsNone(Val(held).date_completed) /\ IsNone(ret.games[1].date_completed)

\* the call names a section that is not known or a field that is not on its
\* section's list
NotAllowed(section, kw) ==
    \/ section \notin DOMAIN _UPDATABLE_FIELDS
    \/ \E i \in 1..Len(kw) : kw[i].key \notin _UPDATABLE_FIELDS[section]

\* C17 as claimed: an update_config that names an unknown section or a
\* field outside the section's list raises ValueError and changes neither
\* the snapshot nor the file, whatever other fields it carries.
RejectedUpdateChangesNothing ==
    [][(op'.name = "update_config" /\ NotAllowed(op'.arg, kwargs')) =>
        /\ err'.type = "ValueError"
        /\ _config' = _config
        /\ file' = file]_vars

\* C18: a successful update_config("igdb", ...) leaves its values in the
\* snapshot and in the file, and a reload_config right after it gives a
\* snapshot with the same token_timestamp and data_refresh_limit.
UpdateThenReload ==
    [][/\ (op'.name = "update_config" /\ op'.arg = "igdb" /\ err' = NoErr) =>
            /\ \A i \in 1..Len(kwargs') :
                Val(_config').igdb[kwargs'[i].key] = kwargs'[i].value
            /\ file'.state = "object"
            /\ JsonLoadValue(file'.doc.igdb.token_timestamp)
                = Val(_config').igdb.token_timestamp
            /\ JsonLoadValue(file'.doc.igdb.data_refresh_limit)
                = Val(_config').igdb.data_refresh_limit
       /\ (/\ op.name = "update_config" /\ op.arg = "igdb" /\ err = NoErr
           /\ op'.name = "reload_config" /\ err' = NoErr) =>
            /\ \A i \in 1..Len(kwargs) :
                Val(_config').igdb[kwargs[i].key] = kwargs[i].value
            /\ Val(_config').igdb.token_timestamp = Val(_config).igdb.token_timestamp
            /\ Val(_config').igdb.data_refresh_limit
                = Val(_config).igdb.data_refresh_limit]_vars

\* a reload has read back the two values an update wrote
UpdateThenReloadWitness ==
    /\ op.name = "reload_config" /\ err = NoErr
    /\ Val(_config).igdb.token_timestamp = PyStr("2024-01-01T00:00:00Z")
    /\ Val(_config).igdb.data_refresh_limit = PyInt(10)
    /\ file.doc.igdb.data_refresh_limit = JNumber(10)

\* the step loads the configuration
Loads ==
    \/ op'.name = "reload_config"
    \/ op'.name = "ConfigManager" /\ IsNone(_config)

\* C19: after a load the snapshot's client_id, client_secret and auth_token
\* are the values of the environment, whatever the file holds, and the
\* igdb object of a file that save_config or update_config has written has
\* the keys token_timestamp and data_refresh_limit and no other.
CredentialsFromEnvironment ==
    [][/\ (Loads /\ err' = NoErr) =>
            /\ Some(Val(_config').igdb._client_id) = environ["IGDB_CLIENT_ID"]
            /\ Some(Val(_config').igdb._client_secret) = environ["IGDB_CLIENT_SECRET"]
            /\ Some(Val(_config').igdb._auth_token) = environ["IGDB_AUTH_TOKEN"]
       /\ (op'.name \in {"save_config", "update_config"} /\ err' = NoErr) =>
            /\ file'.state = "object"
            /\ DOMAIN file'.doc.igdb = {"token_timestamp", "data_refresh_limit"}]_vars

\* a file that names a client_id has been loaded under another client_id
\* in the environment, which the snapshot holds
CredentialsWitness ==
    /\ op.name = "reload_config" /\ err = NoErr
    /\ file = Written(SampleDoc)
    /\ environ["IGDB_CLIENT_ID"] = OtherClientId
    /\ Some(Val(_config).igdb._client_id) = OtherClientId

\* the message of the error for the first variable that is not set
FirstUnset(env) ==
    IF IsNone(env["IGDB_CLIENT_ID"])
    THEN "IGDB_CLIENT_ID environment variable is required"
    ELSE IF IsNone(env["IGDB_CLIENT_SECRET"])
    THEN "IGDB_CLIENT_SECRET environment variable is required"
    ELSE "IGDB_AUTH_TOKEN environment variable is required"

SomeUnset(env) == \E name \in EnvNames : IsNone(env[name])

\* C20 as claimed: a load with one of the three variables unset raises
\* ValueError naming the first that is unset and produces no snapshot.
MissingCredentialNamed ==
    [][(Loads /\ SomeUnset(environ)) =>
        /\ err' = Raise("ValueError", FirstUnset(environ))
        /\ _config' = _config]_vars

\* C20 as amended: a load of a file that holds a JSON object, with one of
\* the three variables unset, raises ValueError naming the first that is
\* unset; a load of a missing file raises FileNotFoundError and a load of
\* a file that is not JSON its decoding error, whatever the environment;
\* each failed load leaves _config as it was, and no load succeeds with a
\* variable unset.
MissingCredentialNamedOnceRead ==
    [][(Loads /\ SomeUnset(environ)) =>
        /\ file.state = "object" => err' = Raise("ValueError", FirstUnset(environ))
        /\ file.state = "missing" => err'.type = "FileNotFoundError"
        /\ file.state = "invalid" => err'.type = "JSONDecodeError"
        /\ _config' = _config]_vars

\* a reload with IGDB_CLIENT_SECRET and IGDB_AUTH_TOKEN unset has failed,
\* its error naming IGDB_CLIENT_SECRET, the old snapshot still in place
MissingCredentialWitness ==
    /\ op.name = "reload_config"
    /\ ~IsNone(environ["IGDB_CLIENT_ID"])
    /\ IsNone(environ["IGDB_CLIENT_SECRET"]) /\ IsNone(environ["IGDB_AUTH_TOKEN"])
    /\ file.state = "object"
    /\ err = Raise("ValueError", "IGDB_CLIENT_SECRET environment variable is required")
    /\ ~IsNone(_config)


\* C21: every ConfigManager() that returns gives the instance of every
\* earlier call, and with a snapshot loaded no step other than
\* reload_config and update_config changes the snapshot: neither a
\* further ConfigManager() nor a change of the file on disk is seen through
\* get_config.
SingletonKeepsSnapshot ==
    [][/\ (op'.name = "ConfigManager" /\ err' = NoErr) =>
            /\ _instance' = Some(op'.id)
            /\ ~IsNone(_instance) => _instance' = _instance
       /\ (~IsNone(_config) /\ op'.name \notin {"reload_config", "update_config"}) =>
            _config' = _config]_vars

\* ConfigManager() has returned while the file on disk no longer holds what
\* the snapshot was loaded from
SingletonWitness ==
    /\ op.name = "ConfigManager" /\ err = NoErr
    /\ file = Written(EmptyDict)
    /\ Val(_config).igdb.data_refresh_limit = PyInt(5)
    /\ _load_config(file, environ, None).config # _config


\* C22: whenever no caller is inside a store operation, no connection is
\* open.
ConnectionsReleased ==
    (\A c \in Callers : pc[c] = "idle") => (\A c \in Callers : open[c] = 0)

\* both callers have run add_user_game to its INSERT with a record of game_id
\* g (a record with tags, as the constructor makes them), each having
\* connected while the store did not hold g
BothAdded(g) ==
    \A c \in Callers :
        /\ pc[c] = "idle"
        /\ call[c].name = "add" /\ call[c].game_id = g
        /\ call[c].fresh /\ call[c].stage = "executed"
        /\ Val(call[c].user_game).tags # <<>>

Returned(c) == call[c].err = NoErr /\ call[c].ret.kind = "id"

OneRowOf(g) == Cardinality({r \in rows : r.v.game_id = Some(g)}) = 1

\* C23 as stated: of two concurrent add_user_game calls for one game_id,
\* one returns an id and the other raises IntegrityError, and one row is
\* stored.
OneAddWinsOtherRefused ==
    \A g \in GameIds :
        BothAdded(g) =>
            /\ \E c, d \in Callers :
                /\ c # d
                /\ Returned(c)
                /\ call[d].err.type = "IntegrityError"
            /\ OneRowOf(g)

\* C23: of two concurrent add_user_game calls for one game_id, one returns
\* an id and the other raises IntegrityError, or OperationalError "database
\* is locked" when its wait for the write lock timed out; one row is stored,
\* and it is the row of the call that returned.
OneAddWinsOtherFails ==
    \A g \in GameIds :
        BothAdded(g) =>
            /\ \E c, d \in Callers :
                /\ c # d
                /\ Returned(c)
                /\ \E r \in rows : r.id = call[c].ret.n
                                    /\ r.v = RowValues(Val(call[c].user_game))
                /\ \/ call[d].err.type = "IntegrityError"
                   \/ call[d].err = Raise("OperationalError", "database is locked")
            /\ OneRowOf(g)

\* the second caller connected before the first one's commit and ran its
\* INSERT after it
OneAddWinsWitness ==
    /\ BothAdded("g1")
    /\ Returned(1)
    /\ call[2].err.type = "IntegrityError"
    /\ Val(call[1].user_game) # Val(call[2].user_game)


\* C24: a load of the lenient ConfigLoader succeeds whether or not the
\* IGDB_* variables are set, and each one that is set is the value of its
\* igdb field in the snapshot.
EnvironmentOverrides ==
    [][(op'.name = "ConfigLoader" /\ op'.arg = "load" /\ file.state = "object") =>
        /\ err' = NoErr
        /\ ~IsNone(environ["IGDB_CLIENT_ID"]) =>
                Some(Val(_config').igdb.client_id) = environ["IGDB_CLIENT_ID"]
        /\ ~IsNone(environ["IGDB_CLIENT_SECRET"]) =>
                Some(Val(_config').igdb.client_secret) = environ["IGDB_CLIENT_SECRET"]
        /\ ~IsNone(environ["IGDB_AUTH_TOKEN"]) =>
                Some(Val(_config').igdb.auth_token) = environ["IGDB_AUTH_TOKEN"]]_vars


\* the tag names of a record are pairwise distinct, up to case
DistinctNames(ug) ==
    \A i, j \in 1..Len(ug.tags) :
        i # j => PyLower(ug.tags[i].name) # PyLower(ug.tags[j].name)

\* a tag of the list has the name, up to case
Named(tags, tag_name) == \E i \in 1..Len(tags) : PyLower(tags[i].name) = PyLower(tag_name)

TagMethods == {"add_tag", "add_tags", "remove_tag", "remove_tag_by_name", "clear_tags"}

\* C25: add_tag appends the tag and returns true exactly when no tag of the
\* record has its name up to case, and otherwise returns false and leaves
\* the list; add_tags returns the number of tags it appended; and a record
\* whose tag names are pairwise distinct up to case keeps them so under
\* add_tag, add_tags, remove_tag, remove_tag_by_name and clear_tags.
AddTagKeepsNamesDistinct ==
    [][/\ op'.name = "add_tag" =>
            IF Named(Val(held).tags, op'.tag)
            THEN ret' = RetBool(FALSE) /\ Val(held').tags = Val(held).tags
            ELSE /\ ret' = RetBool(TRUE)
                 /\ Len(Val(held').tags) = Len(Val(held).tags) + 1
                 /\ SubSeq(Val(held').tags, 1, Len(Val(held).tags)) = Val(held).tags
                 /\ Val(held').tags[Len(Val(held').tags)].name = op'.tag
       /\ op'.name = "add_tags" =>
            /\ ret'.n = Len(Val(held').tags) - Len(Val(held).tags)
            /\ SubSeq(Val(held').tags, 1, Len(Val(held).tags)) = Val(held).tags
       /\ (op'.name \in TagMethods /\ DistinctNames(Val(held))) =>
            DistinctNames(Val(held'))]_vars

\* add_tag has refused a tag whose name differs in case only from a name
\* of the record
AddTagWitness ==
    /\ op.name = "add_tag" /\ op.tag = FavoriteLower
    /\ ret = RetBool(FALSE)
    /\ Len(Val(held).tags) = 2
    /\ DistinctNames(Val(held))

Removals == {"remove_tag", "remove_tag_by_name"}

\* C26 as stated: when remove_tag_by_name(n) or remove_tag returns true,
\* no tag of the record has the name any more and the list is one shorter;
\* when it returns false the list is unchanged.
RemovedTagIsGone ==
    [][op'.name \in Removals =>
        IF ret'.b
        THEN /\ ~has_tag_by_name(Val(held'), op'.tag)
             /\ Len(Val(held').tags) = Len(Val(held).tags) - 1
        ELSE Val(held').tags = Val(held).tags]_vars

\* C26: when remove_tag_by_name(n) or remove_tag returns true the list is
\* one shorter, and no tag of the record has the name any more if the
\* names of the record were pairwise distinct up to case; when it returns
\* false the list is unchanged.
RemovedTagIsGoneIfDistinct ==
    [][op'.name \in Removals =>
        IF ret'.b
        THEN /\ DistinctNames(Val(held)) => ~has_tag_by_name(Val(held'), op'.tag)
             /\ Len(Val(held').tags) = Len(Val(held).tags) - 1
        ELSE Val(held').tags = Val(held).tags]_vars

\* a tag has been removed by a name that differs in case from the tag's,
\* and another tag is left
RemovedTagWitness ==
    /\ op.name = "remove_tag_by_name" /\ op.tag = FavoriteLower
    /\ ret = RetBool(TRUE)
    /\ get_tag_names(Val(held)) = <<Wishlist>>

\* C27 as stated: every stored row has played_time >= 0, and a lookup of
\* a stored game never fails: it returns the record of the row.
StoredRowsReadable ==
    /\ \A r \in rows : Val(r.v.played_time) >= 0
    /\ (op.name = "get" /\ Stored(op.game_id)) =>
           (err = NoErr /\ ret.kind = "game")

\* the tags column of the row decodes to a non-empty list
TagsDecode(r) ==
    LET t == _parse_json_field(r.v.tags) IN ~IsNone(t) /\ Val(t) # <<>>

\* the record that the add or update of this step was given
Given == IF op.arg = "fresh" THEN FreshRecord ELSE Val(held)

Writes == {"add", "update"}

\* C28 as stated: every stored row's tags column decodes to a non-empty
\* list, and add_user_game or update_user_game with a record whose tag
\* list is empty fails with an IntegrityError and leaves the rows as they
\* were.
EmptyTagsRefused ==
    /\ [](\A r \in rows : TagsDecode(r))
    /\ [][(op'.name \in Writes /\ Given'.tags = <<>>) =>
            /\ err'.type = "IntegrityError"
            /\ rows' = rows]_vars

\* C28: every stored row's tags column decodes to a non-empty list; a
\* write of a record whose tag list is empty leaves the rows as they were;
\* add_user_game fails with the NOT NULL IntegrityError, and so does
\* update_user_game when the record's id is the id of a stored row; with no
\* id, or the id of no stored row, update_user_game returns False and
\* raises nothing.
EmptyTagsNeverStored ==
    /\ [](\A r \in rows : TagsDecode(r))
    /\ [][(op'.name \in Writes /\ Given'.tags = <<>>) =>
            /\ rows' = rows
            /\ IF /\ op'.name = "update"
                  /\ \/ IsNone(Given'.id)
                     \/ Val(Given'.id) \notin Ids(rows)
               THEN ret' = RetBool(FALSE) /\ err' = NoErr
               ELSE err' = Raise("IntegrityError", "NOT NULL constraint failed")]_vars

\* the update of a stored row with a record whose tags were cleared has
\* been refused
EmptyTagsWitness ==
    /\ op.name = "update"
    /\ held # None /\ Val(held).tags = <<>>
    /\ ~IsNone(HeldId) /\ Val(HeldId) \in Ids(rows)
    /\ err = Raise("IntegrityError", "NOT NULL constraint failed")
    /\ \A r \in rows : TagsDecode(r)

\* the value the file on disk gives an igdb field, the constructor's
\* default when the file does not name it
FileValue(key, default) ==
    IF "igdb" \in DOMAIN file.doc /\ key \in DOMAIN file.doc.igdb
    THEN JsonLoadValue(file.doc.igdb[key]) ELSE default

\* C29: a reload_config that fails leaves the snapshot as it was, and it
\* fails with FileNotFoundError when the file is missing and with an error
\* when a credential variable is unset; a reload_config that succeeds
\* leaves a snapshot made of the file's values, the constructor's defaults
\* and the environment only, whatever the snapshot held before.
FailedReloadKeepsSnapshot ==
    [][op'.name = "reload_config" =>
        /\ err' # NoErr => _config' = _config
        /\ file.state = "missing" => err'.type = "FileNotFoundError"
        /\ SomeUnset(environ) => err' # NoErr
        /\ err' = NoErr =>
            _config' = Some(
                [igdb |-> [token_timestamp |-> FileValue("token_timestamp", PyStr("")),
                           data_refresh_limit |-> FileValue("data_refresh_limit", PyInt(1)),
                           _client_id |-> Val(environ["IGDB_CLIENT_ID"]),
                           _client_secret |-> Val(environ["IGDB_CLIENT_SECRET"]),
                           _auth_token |-> Val(environ["IGDB_AUTH_TOKEN"])],
                 server |-> ServerConfig,
                 database |-> DatabaseConfig])]_vars

\* a reload of a missing file has failed, and the snapshot still holds the
\* value an earlier update_config gave it
FailedReloadWitness ==
    /\ op.name = "reload_config"
    /\ file = Missing
    /\ err.type = "FileNotFoundError"
    /\ ~IsNone(_config)
    /\ Val(_config).igdb.data_refresh_limit = PyInt(20)

\* C30: add_user_game leaves the record it was given as it was, its id
\* included; when it succeeds the one new row has the id it returns, which
\* is positive and the id of no row stored before, whatever the record's
\* id; and update_user_game with the id-less record just added returns
\* False and changes no row.
AddIgnoresRecordId ==
    [][/\ op'.name = "add" => held' = held
       /\ (op'.name = "add" /\ err' = NoErr) =>
            /\ ret'.kind = "id"
            /\ ret'.n > 0
            /\ ret'.n \notin Ids(rows)
            /\ rows' = rows \cup {[id |-> ret'.n, v |-> RowValues(Given')]}
       /\ (/\ op.name = "add" /\ op.arg = "held" /\ err = NoErr
           /\ IsNone(HeldId)
           /\ op'.name = "update") =>
            /\ ret' = RetBool(FALSE)
            /\ err' = NoErr
            /\ rows' = rows]_vars

\* a record carrying the id of a stored row has been added under another
\* id, and still carries its own
AddIgnoresRecordIdWitness ==
    /\ op.name = "add" /\ op.arg = "held" /\ err = NoErr
    /\ HeldId = Some(1)
    /\ ret = RetId(2)
    /\ {r.v.game_id : r \in rows} = {Some("g1"), Some("g2")}
    /\ \E r \in rows : r.id = 2 /\ r.v.game_id = Some(HeldGameId)

=============================================================================
